---- MODULE Spec2Model ----
(***************************************************************************)
(* DIO: endpoint telemetry pipeline.                                       *)
(*                                                                         *)
(* Collector side (src/src/app/api/events/route.ts, src/src/lib/           *)
(* events-storage.ts): POST /api/events stores one event row, GET          *)
(* /api/events reads the rows newest first and groups them per minute with *)
(* aggregateEventsByMinute.                                                *)
(*                                                                         *)
(* Agent side (the code excerpts of src/AGENT_CONNECTION_FIX.md): the      *)
(* health wait, the registration retry loop and the monitoring loop with   *)
(* its consecutive-failure counter.                                        *)
(*                                                                         *)
(* Receiver (src/src/app/api/events/receive/route.ts): POST validates id,  *)
(* type and name before storing.                                           *)
(*                                                                         *)
(* Agent table (src/unnamed/part_008): POST /api/agents creates the row of *)
(* an agent or updates the one it finds by id.                             *)
(*                                                                         *)
(* Detector (src/unnamed/part_003, Detection Capabilities): the ring of    *)
(* samples, the sustained CPU rule, the spike rule, the network rule, the  *)
(* disk rule and the cooldown of each kind.                                *)
(*                                                                         *)
(* System health (src/src/app/api/system-health/route.ts): GET creates an  *)
(* alert event for a warning or critical component unless it finds a       *)
(* recent one.                                                             *)
(*                                                                         *)
(* Threats (src/src/app/api/threats/route.ts, src/unnamed/part_010,        *)
(* src/unnamed/part_004): POST /api/threats stores a threat, POST          *)
(* /api/events/{eventId} acknowledges an event and the threat of its id.   *)
(***************************************************************************)
EXTENDS Integers, Sequences, FiniteSets, Bags, TLC

VARIABLES
    db,                 \* rows of the event table, in insertion order
    developmentEvents,  \* events-storage.ts: the in-memory fallback store
    pending,            \* bag of the handlers in flight: POST requests parsed and awaiting db.event.create,
                        \* GET /api/system-health and
                        \* POST /api/agents handlers between their awaits
    dbEvents,           \* rows read by the last GET (after orderBy / take)
    eventMap,           \* the Map built by the last aggregateEventsByMinute call
    response,           \* last GET response: [source, data]
    reply,              \* last POST response: [route, status] and, where the route answers it, savedToDb
    received,           \* history: the POST requests in order of arrival
    agents,             \* rows of the agent table, in the order of their creation
    dateNow,            \* the collector's clock: what new Date() returns
    developmentThreats, \* the in-memory threat store of threats-storage
    phase,              \* agent: position in the startup / monitoring code
    total_waited,       \* agent: health wait, seconds slept so far
    wait_interval,      \* agent: health wait, next sleep
    last_poll,          \* agent: outcome of the last GET /health
    last_sleep,         \* agent: seconds slept after the last health poll or attempt
    attempt,            \* agent: loop index of the retry loop of the current call
    consecutive_failures, \* agent: monitor_system counter
    sent,               \* agent: the request sent by the last step
    returned,           \* agent: result of the last finished call
    failed_run,         \* history: failed report calls in a row since the last
                        \* successful report or registerAgent call
    last_outcome,       \* history: how the last send attempt ended
    step,               \* agent: position in the body of the monitoring loop
    anomalies,          \* agent: anomalies of this cycle not yet reported
    inflight,           \* agent: the anomaly whose report call has not returned
    stop,               \* agent: a stop signal has arrived
    detected,           \* history: what check_for_anomalies returned this cycle
    reported,           \* history: the anomalies of this cycle whose report call
                        \* has returned, in order
    stop_during,        \* history: <<inflight, attempt>> when the signal arrived
    failed_total,       \* history: failed report calls since the agent last
                        \* registered, counted up to max_consecutive_failures
    recovered,          \* history: a re-registration has succeeded
    ring,               \* detector: the last samples, oldest first
    now,                \* detector: the clock, in seconds
    last_raised,        \* detector: per kind, when it was last raised
    raised,             \* detector: what the last check_for_anomalies returned
    cycles,             \* history: detection cycles run
    taken,              \* history: every sample taken, oldest first
    cooled,             \* history: the kinds in cooldown at the last detection
    raise_log,          \* history: every anomaly raised, [kind, at]
    threw,              \* history: the rules that threw in the last detection
    skipped,            \* history: the sampling call of the current tick failed
    missed              \* history: ticks whose sampling call failed

collectorVars == <<db, developmentEvents, pending, dbEvents, eventMap, response, reply,
                   received, agents, dateNow, developmentThreats>>
loopVars == <<step, anomalies, inflight, stop, detected, reported, stop_during,
              failed_total>>
agentVars == <<phase, total_waited, wait_interval, last_poll, last_sleep, attempt,
               consecutive_failures, sent, returned, failed_run, last_outcome, step,
               anomalies, inflight, stop, detected, reported, stop_during,
               failed_total, recovered>>
detectorVars == <<ring, now, last_raised, raised, cycles, taken, cooled, raise_log,
                  threw, skipped, missed>>
vars == <<db, developmentEvents, pending, dbEvents, eventMap, response, reply, received,
          agents, dateNow, developmentThreats,
          phase, total_waited, wait_interval, last_poll, last_sleep, attempt,
          consecutive_failures, sent, returned, failed_run, last_outcome, step,
          anomalies, inflight, stop, detected, reported, stop_during, failed_total, recovered,
          ring, now, last_raised, raised, cycles, taken, cooled, raise_log,
          threw, skipped, missed>>

-----------------------------------------------------------------------------
(* Bounds of the model *)

MaxEvents == 3      \* POST requests accepted in one behaviour
MaxKeyEvents == 2   \* the same, in the specification of the group key
MaxCycles == 16     \* detection cycles, in the specification of the sustained rule
MaxSamples == 4     \* the same, in the specification of the spike rule
MaxTicks == 12      \* the same, in the specification of the cooldown
MaxLoopTicks == 11  \* ticks of the monitoring loop, in the specification of the loop
MaxRegistrations == 3 \* POST /api/agents requests in one behaviour
MaxStoreAdds == 101 \* POST /api/events/receive requests, in the specification of the store
MaxHealthGets == 2  \* GET /api/system-health handlers in flight at once
MaxHealthMinutes == 6 \* minutes that pass, in the specification of the health alerts
MaxThreats == 2     \* threats counted on one agent row
MaxThreatRequests == 4 \* POST /api/threats and acknowledge requests in one behaviour

Range(s) == { s[i] : i \in 1..Len(s) }

-----------------------------------------------------------------------------
(* Dates.  A Date is the record of its local calendar fields; month is the *)
(* calendar month 1..12, getMonth is 0-based as in JavaScript.             *)

MkDate(y, mo, d, h, mi, s) ==
    [year |-> y, month |-> mo, day |-> d, hour |-> h, minute |-> mi, second |-> s]

getFullYear(d) == d.year
getMonth(d) == d.month - 1
getDate(d) == d.day
getMinutes(d) == d.minute

DateFields(d) == <<d.year, d.month, d.day, d.hour, d.minute, d.second>>

RECURSIVE LexGreater(_, _, _)
LexGreater(a, b, i) ==
    IF i > Len(a) THEN FALSE
    ELSE IF a[i] # b[i] THEN a[i] > b[i]
    ELSE LexGreater(a, b, i + 1)

\* a > b on Date objects (comparison of the instants)
DateGreater(a, b) == LexGreater(DateFields(a), DateFields(b), 1)

\* String(n).padStart(2, '0')
padStart2(n) == IF n < 10 THEN "0" \o ToString(n) ELSE ToString(n)

-----------------------------------------------------------------------------
(* aggregateEventsByMinute *)

Severities == {"low", "medium", "high", "critical"}

\* const severityOrder = { critical: 4, high: 3, medium: 2, low: 1 }
severityOrder(s) ==
    CASE s = "critical" -> 4
      [] s = "high" -> 3
      [] s = "medium" -> 2
      [] s = "low" -> 1
      [] OTHER -> 0

\* severityOrder[a] > severityOrder[b]; a lookup of another string is
\* undefined and every comparison with undefined is false
SeverityGreater(a, b) ==
    /\ a \in Severities
    /\ b \in Severities
    /\ severityOrder(a) > severityOrder(b)

minuteKey(eventDate) ==
    ToString(getFullYear(eventDate)) \o "-" \o padStart2(getMonth(eventDate) + 1)
        \o "-" \o padStart2(getDate(eventDate))
        \o "-" \o padStart2((getMinutes(eventDate) \div 1) * 1)

\* event.agentId || event.agent_id || 'unknown'
AgentIdOf(event) == IF event.agentId = "" THEN "unknown" ELSE event.agentId

typeKey(event) == event.type \o "-" \o AgentIdOf(event)

fullKey(event) == minuteKey(event.timestamp) \o "-" \o typeKey(event)

\* eventMap is kept as the sequence of its entries in insertion order
KeyIndex(map, key) ==
    IF \E i \in 1..Len(map) : map[i].key = key
    THEN CHOOSE i \in 1..Len(map) : map[i].key = key
    ELSE 0

\* variant: the counter of a new entry starts at 0
NewEntryCountZero(event) ==
    [key |-> fullKey(event), count |-> 0, representative |-> event,
     firstSeen |-> event.timestamp]

\* first entry of a key: eventMap.set(fullKey, {count: 1, representative, firstSeen})
NewEntry(event) ==
    [key |-> fullKey(event), count |-> 1, representative |-> event,
     firstSeen |-> event.timestamp]

\* variant: an event of equal severity replaces the representative as well
ReplacesOnEqualSeverity(event, existing) ==
    \/ severityOrder(event.severity) >= severityOrder(existing.representative.severity)
    \/ DateGreater(event.timestamp, existing.firstSeen)

\* the condition under which the representative is replaced
ReplacesRepresentative(event, existing) ==
    \/ SeverityGreater(event.severity, existing.representative.severity)
    \/ DateGreater(event.timestamp, existing.firstSeen)

\* variant: the else branch updates the representative and leaves the count
MergeEntryKeepsCount(existing, event) ==
    IF ReplacesRepresentative(event, existing)
    THEN [existing EXCEPT !.representative = event, !.firstSeen = event.timestamp]
    ELSE existing

\* the else branch: existing.count++ and the representative update
MergeEntry(existing, event) ==
    IF ReplacesRepresentative(event, existing)
    THEN [existing EXCEPT !.count = @ + 1, !.representative = event,
                          !.firstSeen = event.timestamp]
    ELSE [existing EXCEPT !.count = @ + 1]

\* the body of events.forEach
IngestEvent(map, event) ==
    LET i == KeyIndex(map, fullKey(event)) IN
    IF i = 0 THEN Append(map, NewEntry(event))
    ELSE [map EXCEPT ![i] = MergeEntry(map[i], event)]

RECURSIVE BuildEventMap(_, _)
BuildEventMap(map, events) ==
    IF events = <<>> THEN map
    ELSE BuildEventMap(IngestEvent(map, Head(events)), Tail(events))

\* one element of the returned array: the representative with the counters
Aggregated(entry) ==
    [type |-> entry.representative.type,
     agentId |-> entry.representative.agentId,
     severity |-> entry.representative.severity,
     timestamp |-> entry.representative.timestamp,
     count |-> entry.count,
     aggregatedCount |-> entry.count,
     originalCount |-> entry.count]

\* Array.prototype.sort with (a, b) => b.timestamp - a.timestamp: stable,
\* newest first
RECURSIVE InsertDesc(_, _)
InsertDesc(sorted, x) ==
    IF sorted = <<>> THEN <<x>>
    ELSE IF DateGreater(x.timestamp, Head(sorted).timestamp)
         THEN <<x>> \o sorted
         ELSE <<Head(sorted)>> \o InsertDesc(Tail(sorted), x)

RECURSIVE SortDesc(_)
SortDesc(s) ==
    IF s = <<>> THEN <<>>
    ELSE InsertDesc(SortDesc(SubSeq(s, 1, Len(s) - 1)), s[Len(s)])

aggregateEventsByMinute(events) ==
    LET map == BuildEventMap(<<>>, events) IN
    SortDesc([i \in 1..Len(map) |-> Aggregated(map[i])])

-----------------------------------------------------------------------------
(* The event table and the in-memory store *)

TakeLimit == 100
StoreLimit == 100

IsSortedDesc(s) ==
    \A i \in 1..(Len(s) - 1) : ~DateGreater(s[i + 1].timestamp, s[i].timestamp)

\* db.event.findMany({orderBy: {timestamp: 'desc'}, take: 100}): the rows
\* newest first; rows of equal timestamp come in an order the database picks
Orders(rows) ==
    { [i \in 1..Len(rows) |-> rows[p[i]]] : p \in Permutations(1..Len(rows)) }

\* variant: the rows oldest first
OrderByTimestampAsc(rows) ==
    { s \in Orders(rows) :
        \A i \in 1..(Len(s) - 1) : ~DateGreater(s[i].timestamp, s[i + 1].timestamp) }

\* the rows as inserted: a query without orderBy
OrderByInsertion(rows) == {rows}

OrderByTimestampDesc(rows) == { s \in Orders(rows) : IsSortedDesc(s) }

FindMany(rows) ==
    { SubSeq(s, 1, IF Len(s) < TakeLimit THEN Len(s) ELSE TakeLimit) :
        s \in OrderByTimestampDesc(rows) }

\* variant: the create replaces a stored row of the same group key
DbUpsertByKey(rows, event) ==
    IF \E i \in 1..Len(rows) : fullKey(rows[i]) = fullKey(event)
    THEN [rows EXCEPT ![CHOOSE i \in 1..Len(rows) : fullKey(rows[i]) = fullKey(event)] = event]
    ELSE Append(rows, event)

\* db.event.create
DbCreate(rows, event) == Append(rows, event)

\* events-storage.ts addEvent
addEvent(store, event) ==
    LET pushed == Append(store, event) IN
    IF Len(pushed) > StoreLimit
    THEN SubSeq(pushed, Len(pushed) - StoreLimit + 1, Len(pushed))
    ELSE pushed

\* events-storage.ts getEvents: sorts the store in place, newest first
getEvents(store) == SortDesc(store)


-----------------------------------------------------------------------------
(* POST /api/events *)

\* a field the request body lacks is the empty string: !eventData.f is true
\* of both
Lacks(v) == v = ""

\* eventData.f || d
OrDefault(v, d) == IF Lacks(v) THEN d ELSE v

\* the row built from eventData: type || 'system', severity || 'medium' and,
\* where the request carries them, id || `event-...`, name || 'Unknown Event'
EventRow(eventData) ==
    LET row == [eventData EXCEPT !.type = OrDefault(@, "system"),
                                 !.severity = OrDefault(@, "medium")]
    IN  IF {"id", "name"} \subseteq DOMAIN eventData
        THEN [row EXCEPT !.id = OrDefault(@, "event-generated"),
                         !.name = OrDefault(@, "Unknown Event")]
        ELSE row

\* await request.json(): the handler holds eventData
PostReceive(event) ==
    /\ Len(received) < MaxEvents
    /\ pending' = pending (+) SetToBag({event})
    /\ received' = Append(received, event)
    /\ UNCHANGED <<db, developmentEvents, dbEvents, eventMap, response, reply>>
    /\ UNCHANGED <<agents, dateNow>>
    /\ UNCHANGED developmentThreats
    /\ UNCHANGED agentVars
    /\ UNCHANGED detectorVars

\* db.event.create succeeds
PostStored(event) ==
    /\ BagIn(event, pending)
    /\ pending' = pending (-) SetToBag({event})
    /\ db' = DbCreate(db, EventRow(event))
    /\ reply' = [route |-> "events", status |-> 200, savedToDb |-> TRUE]
    /\ UNCHANGED <<developmentEvents, dbEvents, eventMap, response, received>>
    /\ UNCHANGED <<agents, dateNow>>
    /\ UNCHANGED developmentThreats
    /\ UNCHANGED agentVars
    /\ UNCHANGED detectorVars

\* variant: the catch only logs the error, the event is kept nowhere
PostFallbackDrops(event) ==
    /\ BagIn(event, pending)
    /\ pending' = pending (-) SetToBag({event})
    /\ reply' = [route |-> "events", status |-> 200, savedToDb |-> FALSE]
    /\ UNCHANGED <<db, developmentEvents, dbEvents, eventMap, response, received>>
    /\ UNCHANGED <<agents, dateNow>>
    /\ UNCHANGED developmentThreats
    /\ UNCHANGED agentVars
    /\ UNCHANGED detectorVars

\* db.event.create throws: the event goes to the in-memory store
PostFallback(event) ==
    /\ BagIn(event, pending)
    /\ pending' = pending (-) SetToBag({event})
    /\ developmentEvents' = addEvent(developmentEvents, EventRow(event))
    /\ reply' = [route |-> "events", status |-> 200, savedToDb |-> FALSE]
    /\ UNCHANGED <<db, dbEvents, eventMap, response, received>>
    /\ UNCHANGED <<agents, dateNow>>
    /\ UNCHANGED developmentThreats
    /\ UNCHANGED agentVars
    /\ UNCHANGED detectorVars

\* the whole handler with no other request in between, the create succeeding
PostEvent(event, limit) ==
    /\ Len(received) < limit
    /\ pending = EmptyBag
    /\ received' = Append(received, event)
    /\ db' = DbCreate(db, EventRow(event))
    /\ reply' = [route |-> "events", status |-> 200, savedToDb |-> TRUE]
    /\ UNCHANGED <<developmentEvents, pending, dbEvents, eventMap, response>>
    /\ UNCHANGED <<agents, dateNow>>
    /\ UNCHANGED developmentThreats
    /\ UNCHANGED agentVars
    /\ UNCHANGED detectorVars

-----------------------------------------------------------------------------
(* POST /api/events/receive *)

\* !eventData.id || !eventData.type || !eventData.name
MissingRequired(eventData) ==
    Lacks(eventData.id) \/ Lacks(eventData.type) \/ Lacks(eventData.name)

\* const newEvent = {...}
newEvent(eventData) ==
    [eventData EXCEPT !.id = OrDefault(@, "event-generated"),
                      !.name = OrDefault(@, "Unknown Event"),
                      !.type = OrDefault(@, "system"),
                      !.severity = OrDefault(@, "medium")]

\* the whole handler: status 400 and nothing stored when a required field
\* is missing, else the event goes to the in-memory store
ReceiverPost(eventData, limit) ==
    /\ Len(received) < limit
    /\ received' = Append(received, eventData)
    /\ IF MissingRequired(eventData)
       THEN /\ reply' = [route |-> "receive", status |-> 400]
            /\ UNCHANGED developmentEvents
       ELSE /\ developmentEvents' = addEvent(developmentEvents, newEvent(eventData))
            /\ reply' = [route |-> "receive", status |-> 200]
    /\ UNCHANGED <<db, pending, dbEvents, eventMap, response>>
    /\ UNCHANGED <<agents, dateNow>>
    /\ UNCHANGED developmentThreats
    /\ UNCHANGED agentVars
    /\ UNCHANGED detectorVars

-----------------------------------------------------------------------------
(* POST /api/agents *)

\* a number the request body does not carry
Undefined == -1

\* body.f !== undefined ? body.f : existingAgent.f
DefinedOr(v, d) == IF v = Undefined THEN d ELSE v

\* body.f || d on a number: undefined and 0 give d
NumberOr(v, d) == IF v = Undefined \/ v = 0 THEN d ELSE v

\* db.agent.update: the data of the update of an existing agent
UpdatedAgent(existingAgent, body, date) ==
    [id |-> existingAgent.id,
     name |-> OrDefault(body.name, existingAgent.name),
     hostname |-> OrDefault(body.hostname, existingAgent.hostname),
     status |-> OrDefault(body.status, existingAgent.status),
     rank |-> DefinedOr(body.rank, existingAgent.rank),
     cpu |-> DefinedOr(body.cpu, existingAgent.cpu),
     memory |-> DefinedOr(body.memory, existingAgent.memory),
     lastSeen |-> date,
     threats |-> existingAgent.threats,
     ipAddress |-> OrDefault(body.ipAddress, existingAgent.ipAddress),
     osType |-> OrDefault(body.osType, existingAgent.osType),
     version |-> OrDefault(body.version, existingAgent.version)]

\* db.agent.create: the data of a new agent
CreatedAgent(body, date) ==
    [id |-> body.id,
     name |-> OrDefault(body.name, "DIO Agent"),
     hostname |-> OrDefault(body.hostname, "unknown"),
     status |-> OrDefault(body.status, "offline"),
     rank |-> NumberOr(body.rank, 0),
     cpu |-> NumberOr(body.cpu, 0),
     memory |-> NumberOr(body.memory, 0),
     lastSeen |-> date,
     threats |-> 0,
     ipAddress |-> OrDefault(body.ipAddress, "unknown"),
     osType |-> OrDefault(body.osType, "unknown"),
     version |-> OrDefault(body.version, "1.0.0")]

\* db.agent.findUnique({where: {id}}): the row of the id, or none
findUnique(rows, id) ==
    LET found == SelectSeq(rows, LAMBDA row : row.id = id) IN
    IF found = <<>> THEN <<>> ELSE <<Head(found)>>

\* variant: the update writes the whole row, the threats it read included
AgentUpdateWholeRow(rows, id, data) ==
    [i \in 1..Len(rows) |-> IF rows[i].id = id THEN data ELSE rows[i]]

\* db.agent.update({where: {id}, data}): data has no threats, the column
\* stays as it is in the table
AgentUpdate(rows, id, data) ==
    [i \in 1..Len(rows) |->
        IF rows[i].id = id THEN [data EXCEPT !.threats = rows[i].threats] ELSE rows[i]]

\* db.agent.create throws: id is the unique key findUnique and update look
\* the row up by, and a row of this id is in the table
AgentCreateThrows(rows, row) == \E i \in 1..Len(rows) : rows[i].id = row.id

\* db.agent.create
AgentCreate(rows, row) == Append(rows, row)

\* the whole handler: findUnique by body.id, then update or create; when the
\* database throws (dbOk false) nothing is saved; the answer is success
\* either way
RegisterPost(body, dbOk, limit) ==
    /\ dateNow < limit
    /\ dateNow' = dateNow + 1
    /\ IF dbOk
       THEN LET existingAgent == findUnique(agents, body.id) IN
            IF existingAgent # <<>>
            THEN agents' = AgentUpdate(agents, body.id,
                                       UpdatedAgent(Head(existingAgent), body, dateNow'))
            ELSE agents' = AgentCreate(agents, CreatedAgent(body, dateNow'))
       ELSE UNCHANGED agents
    /\ reply' = [route |-> "agents", status |-> 200, savedToDb |-> dbOk]
    /\ UNCHANGED <<db, developmentEvents, pending, dbEvents, eventMap, response, received>>
    /\ UNCHANGED developmentThreats
    /\ UNCHANGED agentVars
    /\ UNCHANGED detectorVars

\* await request.json(): the handler holds body
RegisterReceive(body, limit) ==
    /\ Len(received) < limit
    /\ received' = Append(received, body)
    /\ pending' = pending (+) SetToBag({[route |-> "agents", body |-> body,
                                         existingAgent |-> <<>>, pc |-> "find"]})
    /\ UNCHANGED <<db, developmentEvents, dbEvents, eventMap, response, reply>>
    /\ UNCHANGED <<agents, dateNow>>
    /\ UNCHANGED developmentThreats
    /\ UNCHANGED agentVars
    /\ UNCHANGED detectorVars

\* db.agent.findUnique answers, or throws (dbOk false): the catch leaves
\* savedAgent null and the handler answers
RegisterFind(handler, dbOk) ==
    /\ BagIn(handler, pending)
    /\ handler.pc = "find"
    /\ IF dbOk
       THEN /\ pending' = (pending (-) SetToBag({handler}))
                           (+) SetToBag({[handler EXCEPT
                                  !.existingAgent = findUnique(agents, handler.body.id),
                                  !.pc = "write"]})
            /\ UNCHANGED reply
       ELSE /\ pending' = pending (-) SetToBag({handler})
            /\ reply' = [route |-> "agents", status |-> 200, savedToDb |-> FALSE]
    /\ UNCHANGED <<db, developmentEvents, dbEvents, eventMap, response, received>>
    /\ UNCHANGED <<agents, dateNow>>
    /\ UNCHANGED developmentThreats
    /\ UNCHANGED agentVars
    /\ UNCHANGED detectorVars

\* db.agent.update of the row found, or db.agent.create when none was
\* found; the database may throw (dbOk false), and the create throws when a
\* row of the id is there by now
RegisterWrite(handler, dbOk) ==
    /\ BagIn(handler, pending)
    /\ handler.pc = "write"
    /\ dateNow' = dateNow + 1
    /\ pending' = pending (-) SetToBag({handler})
    /\ IF handler.existingAgent # <<>>
       THEN /\ agents' = IF dbOk
                         THEN AgentUpdate(agents, handler.body.id,
                                          UpdatedAgent(Head(handler.existingAgent),
                                                       handler.body, dateNow'))
                         ELSE agents
            /\ reply' = [route |-> "agents", status |-> 200, savedToDb |-> dbOk]
       ELSE LET row == CreatedAgent(handler.body, dateNow')
                saved == dbOk /\ ~AgentCreateThrows(agents, row)
            IN  /\ agents' = IF saved THEN AgentCreate(agents, row) ELSE agents
                /\ reply' = [route |-> "agents", status |-> 200, savedToDb |-> saved]
    /\ UNCHANGED <<db, developmentEvents, dbEvents, eventMap, response, received>>
    /\ UNCHANGED developmentThreats
    /\ UNCHANGED agentVars
    /\ UNCHANGED detectorVars

\* the threats column of a row is raised by one: GET /api/agents reads the
\* column, POST never writes it after the create
ThreatCounted(i, limit) ==
    /\ i \in 1..Len(agents)
    /\ agents[i].threats < limit
    /\ agents' = [agents EXCEPT ![i].threats = @ + 1]
    /\ UNCHANGED <<db, developmentEvents, pending, dbEvents, eventMap, response, reply,
                   received, dateNow>>
    /\ UNCHANGED developmentThreats
    /\ UNCHANGED agentVars
    /\ UNCHANGED detectorVars

-----------------------------------------------------------------------------
(* GET /api/events *)

\* the database answers
GetFromDb ==
    /\ \E rows \in FindMany(db) :
        /\ dbEvents' = rows
        /\ IF Len(rows) > 0
           THEN /\ eventMap' = BuildEventMap(<<>>, rows)
                /\ response' = [source |-> "db", data |-> aggregateEventsByMinute(rows)]
           ELSE /\ eventMap' = <<>>
                /\ response' = [source |-> "db", data |-> <<>>]
    /\ UNCHANGED <<db, developmentEvents, pending, reply, received>>
    /\ UNCHANGED <<agents, dateNow>>
    /\ UNCHANGED developmentThreats
    /\ UNCHANGED agentVars
    /\ UNCHANGED detectorVars

\* the query throws: the in-memory store is returned as it is, not aggregated
GetFromMemory ==
    /\ developmentEvents' = getEvents(developmentEvents)
    /\ dbEvents' = <<>>
    /\ eventMap' = <<>>
    /\ response' = [source |-> "memory", data |-> getEvents(developmentEvents)]
    /\ UNCHANGED <<db, pending, reply, received>>
    /\ UNCHANGED <<agents, dateNow>>
    /\ UNCHANGED developmentThreats
    /\ UNCHANGED agentVars
    /\ UNCHANGED detectorVars

-----------------------------------------------------------------------------
(* GET /api/system-health: the alert events of the warning and critical
   components *)

AlertWindow == 5            \* 5 * 60 * 1000 ms, in minutes

HealthComponents == <<"database", "api">>

HealthStatuses == {"healthy", "warning", "critical"}

\* component.status === 'critical' || component.status === 'warning'
Flagged(statuses) ==
    SelectSeq([i \in 1..Len(HealthComponents) |->
                  [component |-> HealthComponents[i],
                   status |-> statuses[HealthComponents[i]]]],
              LAMBDA c : c.status \in {"critical", "warning"})

\* `System Health Alert: ${component.component}`
AlertName(component) == "System Health Alert: " \o component

\* db.event.findFirst: an active alert of the component not older than 5
\* minutes
RecentAlert(rows, component, date) ==
    \E i \in 1..Len(rows) :
        /\ rows[i].name = AlertName(component)
        /\ rows[i].type = "system"
        /\ rows[i].status = "active"
        /\ rows[i].timestamp >= date - AlertWindow

\* the data of db.event.create
AlertRow(c, date) ==
    [name |-> AlertName(c.component), type |-> "system",
     severity |-> IF c.status = "critical" THEN "critical" ELSE "medium",
     timestamp |-> date, status |-> "active"]

\* the handler after the component at the head of its list
HealthAdvance(handler) ==
    IF Len(handler.todo) > 1
    THEN pending' = (pending (-) SetToBag({handler}))
                    (+) SetToBag({[handler EXCEPT !.todo = Tail(@), !.pc = "find"]})
    ELSE pending' = pending (-) SetToBag({handler})

\* db.systemHealth.findMany answers: the handler holds the components to
\* look at; with none warning or critical it returns at once
HealthGet(statuses) ==
    /\ BagCardinality(pending) < MaxHealthGets
    /\ Flagged(statuses) # <<>>
    /\ pending' = pending (+) SetToBag({[route |-> "system-health",
                                         todo |-> Flagged(statuses), pc |-> "find"]})
    /\ UNCHANGED <<db, developmentEvents, dbEvents, eventMap, response, reply, received>>
    /\ UNCHANGED <<agents, dateNow>>
    /\ UNCHANGED developmentThreats
    /\ UNCHANGED agentVars
    /\ UNCHANGED detectorVars

\* db.event.findFirst answers for the component at the head of the list
HealthFind(handler) ==
    /\ BagIn(handler, pending)
    /\ handler.pc = "find"
    /\ IF RecentAlert(db, Head(handler.todo).component, dateNow)
       THEN HealthAdvance(handler)
       ELSE pending' = (pending (-) SetToBag({handler}))
                       (+) SetToBag({[handler EXCEPT !.pc = "create"]})
    /\ UNCHANGED <<db, developmentEvents, dbEvents, eventMap, response, reply, received>>
    /\ UNCHANGED <<agents, dateNow>>
    /\ UNCHANGED developmentThreats
    /\ UNCHANGED agentVars
    /\ UNCHANGED detectorVars

\* db.event.create, after a search that found nothing
HealthCreate(handler) ==
    /\ BagIn(handler, pending)
    /\ handler.pc = "create"
    /\ db' = DbCreate(db, AlertRow(Head(handler.todo), dateNow))
    /\ HealthAdvance(handler)
    /\ UNCHANGED <<developmentEvents, dbEvents, eventMap, response, reply, received>>
    /\ UNCHANGED <<agents, dateNow>>
    /\ UNCHANGED developmentThreats
    /\ UNCHANGED agentVars
    /\ UNCHANGED detectorVars

\* a minute passes
MinutePasses(limit) ==
    /\ dateNow < limit
    /\ dateNow' = dateNow + 1
    /\ UNCHANGED <<db, developmentEvents, pending, dbEvents, eventMap, response, reply,
                   received, agents>>
    /\ UNCHANGED developmentThreats
    /\ UNCHANGED agentVars
    /\ UNCHANGED detectorVars

-----------------------------------------------------------------------------
(* The threat store, and the acknowledgement of a threat.  An id is the
   sequence of its parts between the hyphens: threat-1 is <<"threat", "1">> *)

ThreatLimit == 50

\* threats-storage addThreat
addThreat(store, threat) ==
    LET pushed == Append(store, threat) IN
    IF Len(pushed) > ThreatLimit
    THEN SubSeq(pushed, Len(pushed) - ThreatLimit + 1, Len(pushed))
    ELSE pushed

\* threats-storage updateThreatStatus: the first threat of the id, if any
updateThreatStatus(store, threatId, status) ==
    IF \E i \in 1..Len(store) : store[i].id = threatId
    THEN LET first == CHOOSE i \in 1..Len(store) :
                         /\ store[i].id = threatId
                         /\ \A j \in 1..(i - 1) : store[j].id # threatId
         IN  [store EXCEPT ![first].status = status]
    ELSE store

\* id.startsWith(prefix + '-')
StartsWith(id, prefix) ==
    /\ Len(id) > Len(prefix)
    /\ SubSeq(id, 1, Len(prefix)) = prefix

\* the Acknowledge button of the Threats tab: threat.id, with event-threat-
\* before it unless it starts with that
ButtonEventId(threatId) ==
    IF StartsWith(threatId, <<"event", "threat">>) THEN threatId
    ELSE <<"event", "threat">> \o threatId

\* POST /api/threats, the whole handler: the event and the threat, both of
\* the id threat-..., go to the in-memory stores; k stands for Date.now()
\* and the random part
ThreatPost(threatData, k, limit) ==
    /\ Len(received) < limit
    /\ received' = Append(received, threatData)
    /\ developmentEvents' =
           addEvent(developmentEvents,
                    [id |-> <<"threat", ToString(k)>>, name |-> OrDefault(threatData.name, "Threat Detected"),
                     type |-> "threat", severity |-> OrDefault(threatData.severity, "medium"),
                     agentId |-> threatData.agent_id, status |-> "active",
                     timestamp |-> MkDate(2024, 11, 17, 10, 0, k)])
    /\ developmentThreats' =
           addThreat(developmentThreats,
                     [id |-> <<"threat", ToString(k)>>, name |-> OrDefault(threatData.name, "Threat Detected"),
                      type |-> OrDefault(threatData.type, "unknown"),
                      severity |-> OrDefault(threatData.severity, "medium"),
                      agent_id |-> threatData.agent_id, status |-> "active"])
    /\ reply' = [route |-> "threats", status |-> 200]
    /\ UNCHANGED <<db, pending, dbEvents, eventMap, response, agents, dateNow>>
    /\ UNCHANGED agentVars
    /\ UNCHANGED detectorVars

\* events.find(e => e.id === eventId); event.status = 'acknowledged'
AcknowledgeEvent(store, eventId) ==
    IF \E i \in 1..Len(store) : store[i].id = eventId
    THEN LET first == CHOOSE i \in 1..Len(store) :
                         /\ store[i].id = eventId
                         /\ \A j \in 1..(i - 1) : store[j].id # eventId
         IN  [store EXCEPT ![first].status = "acknowledged"]
    ELSE store

\* POST /api/events/{eventId}, the whole handler: in production the
\* acknowledgement is forwarded, and when the nerve center answers ok
\* (forwarded) the handler returns its answer; otherwise the event of the id
\* in the in-memory store is acknowledged and, when the id starts with
\* threat-, the threat of the id
AcknowledgePost(eventId, forwarded, limit) ==
    /\ Len(received) < limit
    /\ received' = Append(received, eventId)
    /\ IF forwarded
       THEN UNCHANGED <<developmentEvents, developmentThreats>>
       ELSE /\ developmentEvents' = AcknowledgeEvent(getEvents(developmentEvents), eventId)
            /\ developmentThreats' =
                   IF StartsWith(eventId, <<"threat">>)
                   THEN updateThreatStatus(developmentThreats, eventId, "acknowledged")
                   ELSE developmentThreats
    /\ reply' = [route |-> "acknowledge", status |-> 200, eventId |-> eventId,
                 forwarded |-> forwarded]
    /\ UNCHANGED <<db, pending, dbEvents, eventMap, response, agents, dateNow>>
    /\ UNCHANGED agentVars
    /\ UNCHANGED detectorVars

\* the Acknowledge button of a threat the Threats tab shows as not
\* acknowledged
AcknowledgeClick(i, forwarded, limit) ==
    /\ i \in 1..Len(developmentThreats)
    /\ developmentThreats[i].status # "acknowledged"
    /\ AcknowledgePost(ButtonEventId(developmentThreats[i].id), forwarded, limit)

-----------------------------------------------------------------------------
(* The detector: check_for_anomalies over the ring of the last samples *)

Never == -1                 \* last_raised of a kind not raised yet
WindowSize == 15            \* 10/15 data points: the samples looked at
SustainedCount == 10        \* 10/15 data points: the samples that must be high
SustainedThreshold == 80    \* >80%
\* variant: three times the baseline
SpikeFactorThree == 2 + 1

SpikeFactor == 2            \* 2x baseline
SpikeFloor == 50            \* the absolute floor of a spike
NetworkFactor == 5          \* 5x baseline
NetworkFloor == 50          \* >50 MB/s
DiskThreshold == 85         \* >85%
Cooldown == 3600            \* seconds before a kind is raised again

\* the rules in the order they run
DetectorKinds == <<"SustainedHighCPU", "CPUSpike", "NetworkAnomaly", "HighDiskUsage">>

\* variant: a full ring refuses the new sample
PushKeepsOldest(r, sample) ==
    IF Len(r) >= WindowSize THEN r ELSE Append(r, sample)

\* the ring keeps the last WindowSize samples
Push(r, sample) ==
    IF Len(r) >= WindowSize THEN Append(Tail(r), sample) ELSE Append(r, sample)

\* variant: a sample at the threshold counts as high
AtLeastThreshold(v) == v >= SustainedThreshold

ExceedsThreshold(v) == v > SustainedThreshold

RECURSIVE CountHigh(_)
CountHigh(r) ==
    IF r = <<>> THEN 0
    ELSE (IF ExceedsThreshold(Head(r).cpu) THEN 1 ELSE 0) + CountHigh(Tail(r))

SustainedHighCPU(r) == CountHigh(r) >= SustainedCount

RECURSIVE SumCpu(_)
SumCpu(r) == IF r = <<>> THEN 0 ELSE Head(r).cpu + SumCpu(Tail(r))

\* the samples the baseline is the mean of: the window without the latest
Baseline(r) == SubSeq(r, 1, Len(r) - 1)

\* current >= SpikeFactor * mean(baseline) and current > SpikeFloor; the
\* comparison with the mean is made on the sums
CPUSpike(r) ==
    LET current == r[Len(r)].cpu
        baseline == Baseline(r)
    IN  /\ Len(baseline) >= 1
        /\ current * Len(baseline) >= SpikeFactor * SumCpu(baseline)
        /\ current > SpikeFloor

RECURSIVE SumNet(_)
SumNet(r) == IF r = <<>> THEN 0 ELSE Head(r).net + SumNet(Tail(r))

\* variant: high usage or a spike, either of them
NetworkAnomalyEither(r) ==
    LET current == r[Len(r)].net
        baseline == Baseline(r)
    IN  \/ current > NetworkFloor
        \/ /\ Len(baseline) >= 1
           /\ current * Len(baseline) > NetworkFactor * SumNet(baseline)

\* high usage and a spike: current > NetworkFloor and current >
\* NetworkFactor * mean(baseline), the comparison made on the sums
NetworkAnomaly(r) ==
    LET current == r[Len(r)].net
        baseline == Baseline(r)
    IN  /\ current > NetworkFloor
        /\ Len(baseline) >= 1
        /\ current * Len(baseline) > NetworkFactor * SumNet(baseline)

HighDiskUsage(r) == r[Len(r)].disk > DiskThreshold

Condition(kind, r) ==
    CASE kind = "SustainedHighCPU" -> SustainedHighCPU(r)
      [] kind = "CPUSpike" -> CPUSpike(r)
      [] kind = "NetworkAnomaly" -> NetworkAnomaly(r)
      [] kind = "HighDiskUsage" -> HighDiskUsage(r)

\* variant: one timestamp for all kinds: any anomaly raised less than
\* Cooldown ago suppresses every kind
InSharedCooldown(kind, clock, last) ==
    \E other \in DOMAIN last : last[other] # Never /\ clock - last[other] < Cooldown

\* the kind was raised less than Cooldown ago
InCooldown(kind, clock, last) ==
    last[kind] # Never /\ clock - last[kind] < Cooldown

\* the kinds whose rule fires on the ring and that are not in cooldown, in
\* rule order
check_for_anomalies(r, clock, last) ==
    LET Fires(kind) == Condition(kind, r) /\ ~InCooldown(kind, clock, last)
    IN  SelectSeq(DetectorKinds, Fires)

\* variant: the exception of a rule ends the detection: the rules after it
\* in rule order do not run
RunRulesUntilThrow(r, clock, last, throws) ==
    LET Reached(i) == \A j \in 1..i : DetectorKinds[j] \notin throws
        ran == SelectSeq([i \in 1..Len(DetectorKinds) |-> i], Reached)
        Fires(i) == Condition(DetectorKinds[i], r) /\ ~InCooldown(DetectorKinds[i], clock, last)
        fired == SelectSeq(ran, Fires)
    IN  [i \in 1..Len(fired) |-> DetectorKinds[fired[i]]]

\* the detection when the rules in throws raise an exception: the exception
\* is caught around the rule, which yields nothing; the other rules run
RunRules(r, clock, last, throws) ==
    LET Fires(kind) ==
            /\ kind \notin throws
            /\ Condition(kind, r)
            /\ ~InCooldown(kind, clock, last)
    IN  SelectSeq(DetectorKinds, Fires)

\* one cycle of the detector: the sample goes into the ring, the rules run,
\* the kinds raised get their timestamp; d seconds pass until the next cycle
Cycle(sample, d, limit) ==
    /\ cycles < limit
    /\ ring' = Push(ring, sample)
    /\ raised' = check_for_anomalies(ring', now, last_raised)
    /\ last_raised' = [kind \in DOMAIN last_raised |->
                          IF kind \in Range(raised') THEN now ELSE last_raised[kind]]
    /\ now' = now + d
    /\ cycles' = cycles + 1
    /\ taken' = Append(taken, sample)
    /\ cooled' = { kind \in Range(DetectorKinds) : InCooldown(kind, now, last_raised) }
    /\ raise_log' = raise_log \o [i \in 1..Len(raised') |-> [kind |-> raised'[i], at |-> now]]
    /\ UNCHANGED <<threw, skipped, missed>>
    /\ UNCHANGED collectorVars
    /\ UNCHANGED agentVars

-----------------------------------------------------------------------------
(* Specifications of the collector *)

CollectorInit ==
    /\ db = <<>>
    /\ developmentEvents = <<>>
    /\ pending = EmptyBag
    /\ dbEvents = <<>>
    /\ eventMap = <<>>
    /\ response = [source |-> "none", data |-> <<>>]
    /\ reply = [route |-> "none", status |-> 0]
    /\ received = <<>>
    /\ agents = <<>>
    /\ dateNow = 0
    /\ developmentThreats = <<>>

AgentIdle ==
    /\ phase = "Starting"
    /\ total_waited = 0
    /\ wait_interval = 2
    /\ last_poll = "none"
    /\ last_sleep = 0
    /\ attempt = 0
    /\ consecutive_failures = 0
    /\ sent = "none"
    /\ returned = [call |-> "none", ok |-> TRUE, attempts |-> 0]
    /\ failed_run = 0
    /\ last_outcome = "none"
    /\ step = "sense"
    /\ anomalies = <<>>
    /\ inflight = "none"
    /\ stop = FALSE
    /\ detected = <<>>
    /\ reported = <<>>
    /\ stop_during = <<"none", 0>>
    /\ failed_total = 0
    /\ recovered = FALSE

DetectorInit ==
    /\ ring = <<>>
    /\ now = 0
    /\ last_raised = [kind \in Range(DetectorKinds) |-> Never]
    /\ raised = <<>>
    /\ cycles = 0
    /\ taken = <<>>
    /\ cooled = {}
    /\ raise_log = <<>>
    /\ threw = {}
    /\ skipped = FALSE
    /\ missed = 0

Init == CollectorInit /\ AgentIdle /\ DetectorInit

\* AggSpec: reports of one agent and one kind within the minute 10:00; the
\* database is available
BucketTimes ==
    { MkDate(2024, 11, 17, 10, 0, 5), MkDate(2024, 11, 17, 10, 0, 20),
      MkDate(2024, 11, 17, 10, 0, 50) }

BucketReports ==
    [type : {"NetworkAnomaly"}, agentId : {"a1"},
     severity : {"medium", "high", "critical"}, timestamp : BucketTimes]

BucketNext ==
    \/ \E event \in BucketReports : PostEvent(event, MaxEvents)
    \/ GetFromDb

AggSpec == Init /\ [][BucketNext]_vars

\* ConcSpec: POST handlers interleaved at their awaits
ConcTimes == { MkDate(2024, 11, 17, 10, 0, 5), MkDate(2024, 11, 17, 10, 0, 20) }

ConcReports ==
    [type : {"NetworkAnomaly"}, agentId : {"a1"},
     severity : {"medium", "critical"}, timestamp : ConcTimes]

ConcNext ==
    \/ \E event \in ConcReports : PostReceive(event)
    \/ \E event \in ConcReports : PostStored(event)
    \/ GetFromDb

ConcSpec == Init /\ [][ConcNext]_vars

\* KeySpec: reports that differ in agent, kind, minute, hour, day, month, year
KeyTimes ==
    { MkDate(2024, 11, 17, 10, 0, 5), MkDate(2024, 11, 17, 10, 1, 5),
      MkDate(2024, 11, 17, 11, 0, 5), MkDate(2024, 11, 18, 10, 0, 5),
      MkDate(2024, 12, 17, 10, 0, 5), MkDate(2025, 11, 17, 10, 0, 5) }

KeyReports ==
    [type : {"NetworkAnomaly", "CPUSpike"}, agentId : {"a1", "a2"},
     severity : {"medium"}, timestamp : KeyTimes]

KeyNext ==
    \/ \E event \in KeyReports : PostEvent(event, MaxKeyEvents)
    \/ GetFromDb

KeySpec == Init /\ [][KeyNext]_vars

\* FlushSpec: reports of one agent and one kind in two consecutive minutes of
\* one hour; a report may arrive after reports of the next minute
FlushTimes ==
    { MkDate(2024, 11, 17, 10, 0, 5), MkDate(2024, 11, 17, 10, 0, 50),
      MkDate(2024, 11, 17, 10, 1, 5) }

FlushReports ==
    [type : {"NetworkAnomaly"}, agentId : {"a1"},
     severity : {"medium", "critical"}, timestamp : FlushTimes]

FlushNext ==
    \/ \E event \in FlushReports : PostEvent(event, MaxEvents)
    \/ GetFromDb

FlushSpec == Init /\ [][FlushNext]_vars

\* SeveritySpec: reports of one bucket whose severity is any string a client
\* may send: the POST stores eventData.severity || 'medium' as it comes
SeverityTimes == { MkDate(2024, 11, 17, 10, 0, 5), MkDate(2024, 11, 17, 10, 0, 50) }

SentSeverities == Severities \cup {"info"}

SeverityReports ==
    [type : {"NetworkAnomaly"}, agentId : {"a1"},
     severity : SentSeverities, timestamp : SeverityTimes]

SeverityNext ==
    \/ \E event \in SeverityReports : PostEvent(event, MaxEvents)
    \/ GetFromDb

SeveritySpec == Init /\ [][SeverityNext]_vars

\* MalformedSpec: request bodies that may lack id, name or type, sent to
\* POST /api/events/receive and to POST /api/events
MalformedReports ==
    [id : {"", "e1"}, name : {"", "High network usage"},
     type : {"", "NetworkAnomaly"}, severity : {"high"}, agentId : {"a1"},
     timestamp : {MkDate(2024, 11, 17, 10, 0, 5)}]

MalformedNext ==
    \/ \E eventData \in MalformedReports : ReceiverPost(eventData, MaxEvents)
    \/ \E eventData \in MalformedReports : PostEvent(eventData, MaxEvents)
    \/ GetFromDb

MalformedSpec == Init /\ [][MalformedNext]_vars

\* GroupSpec: reports of one agent and one kind, of three severities, in two
\* minutes of one hour, stored in any order
GroupTimes ==
    { MkDate(2024, 11, 17, 10, 0, 5), MkDate(2024, 11, 17, 10, 0, 50),
      MkDate(2024, 11, 17, 10, 1, 5) }

GroupReports ==
    [type : {"NetworkAnomaly"}, agentId : {"a1"},
     severity : {"low", "high", "critical"}, timestamp : GroupTimes]

GroupNext ==
    \/ \E event \in GroupReports : PostEvent(event, MaxEvents)
    \/ GetFromDb

GroupSpec == Init /\ [][GroupNext]_vars

\* StoreSpec: the in-memory store filled through POST /api/events/receive and
\* read through the GET that falls back to it; the k-th report carries the
\* id k and a timestamp k seconds after 10:00:00
StoreReport(k) ==
    [id |-> ToString(k), name |-> "High network usage", type |-> "NetworkAnomaly",
     severity |-> "high", agentId |-> "a1",
     timestamp |-> MkDate(2024, 11, 17, 10, k \div 60, k % 60)]

StoreNext ==
    \/ ReceiverPost(StoreReport(Len(received) + 1), MaxStoreAdds)
    \/ GetFromMemory

StoreSpec == Init /\ [][StoreNext]_vars

\* FallbackSpec: POST /api/events whose database write succeeds or throws,
\* and GET /api/events whose query succeeds or throws
FallbackTimes ==
    { MkDate(2024, 11, 17, 10, 0, 5), MkDate(2024, 11, 17, 10, 0, 50),
      MkDate(2024, 11, 17, 10, 1, 5) }

FallbackReports ==
    [type : {"NetworkAnomaly"}, agentId : {"a1"},
     severity : {"high"}, timestamp : FallbackTimes]

FallbackNext ==
    \/ \E event \in FallbackReports : PostReceive(event)
    \/ \E event \in FallbackReports : PostStored(event)
    \/ \E event \in FallbackReports : PostFallback(event)
    \/ GetFromDb
    \/ GetFromMemory

FallbackSpec == Init /\ [][FallbackNext]_vars

\* HealthSpec: GET /api/system-health requests that find components warning
\* or critical, interleaved at their awaits, while minutes pass
HealthHandlers ==
    [route : {"system-health"},
     todo : { Flagged(statuses) : statuses \in [Range(HealthComponents) -> HealthStatuses] }
            \cup { Tail(Flagged(statuses)) :
                      statuses \in [Range(HealthComponents) -> {"warning", "critical"}] },
     pc : {"find", "create"}]

HealthNext ==
    \/ \E statuses \in [Range(HealthComponents) -> HealthStatuses] : HealthGet(statuses)
    \/ \E handler \in HealthHandlers : HealthFind(handler)
    \/ \E handler \in HealthHandlers : HealthCreate(handler)
    \/ MinutePasses(MaxHealthMinutes)

HealthSpec == Init /\ [][HealthNext]_vars

\* RegisterSpec: registrations of two agents; a body may lack hostname,
\* address or metrics, and an agent may come back from another host name or
\* address
RegisterBodies ==
    [id : {"a1", "a2"}, name : {"DIO Agent"}, hostname : {"", "host-a", "host-b"},
     status : {"active"}, rank : {Undefined}, cpu : {Undefined, 90},
     memory : {40}, ipAddress : {"", "10.0.0.5"}, osType : {"Linux"},
     version : {"1.0.0"}]

RegisterNext ==
    \E body \in RegisterBodies : \E dbOk \in BOOLEAN :
        RegisterPost(body, dbOk, MaxRegistrations)

RegisterSpec == Init /\ [][RegisterNext]_vars

\* UpsertSpec: registrations of two agents whose handlers interleave at
\* their awaits, while threats are counted on the rows
UpsertBodies ==
    [id : {"a1", "a2"}, name : {"DIO Agent"}, hostname : {"host-a"},
     status : {"active"}, rank : {Undefined}, cpu : {Undefined, 90},
     memory : {40}, ipAddress : {"10.0.0.5"}, osType : {"Linux"},
     version : {"1.0.0"}]

UpsertNext ==
    \/ \E body \in UpsertBodies : RegisterReceive(body, MaxRegistrations)
    \/ \E handler \in BagToSet(pending) : \E dbOk \in BOOLEAN : RegisterFind(handler, dbOk)
    \/ \E handler \in BagToSet(pending) : \E dbOk \in BOOLEAN : RegisterWrite(handler, dbOk)
    \/ \E i \in 1..Len(agents) : ThreatCounted(i, MaxThreats)

UpsertSpec == Init /\ [][UpsertNext]_vars

\* ThreatSpec: threats reported to POST /api/threats and acknowledged from
\* the Threats tab, or by a client that posts the id of the threat itself
ThreatReports ==
    [name : {"", "Port scan"}, type : {"intrusion"}, severity : {"", "high"},
     agent_id : {"a1"}]

ThreatNext ==
    \/ \E threatData \in ThreatReports :
          ThreatPost(threatData, Len(developmentThreats) + 1, MaxThreatRequests)
    \/ \E i \in 1..Len(developmentThreats) : \E forwarded \in BOOLEAN :
          AcknowledgeClick(i, forwarded, MaxThreatRequests)
    \/ \E i \in 1..Len(developmentThreats) :
          AcknowledgePost(developmentThreats[i].id, FALSE, MaxThreatRequests)

ThreatSpec == Init /\ [][ThreatNext]_vars

-----------------------------------------------------------------------------
(* The agent: health wait, registration with retries, monitoring loop *)

max_wait_time == 60
InitialWaitInterval == 2
MaxWaitInterval == 10
max_retries == 3
retry_delay == 2
max_consecutive_failures == 5

HealthOutcomes == {"ok200", "status500", "status503", "connError", "timeout"}
SendOutcomes == {"ok200", "status500", "connError", "timeout", "otherError"}

\* the health wait goes on: while total_waited < max_wait_time
HealthWaitContinues(waited) == waited < max_wait_time

\* the poll ends in the except branch: the request raised
HealthPollRaises(outcome) == outcome \in {"connError", "timeout"}

\* wait_interval = min(wait_interval * 2, 10)
NextWaitInterval(w) == IF w * 2 < MaxWaitInterval THEN w * 2 ELSE MaxWaitInterval

\* variant: without the except Exception clause: only the two named
\* exceptions are caught
CaughtIfNamed(outcome) == outcome \in {"status500", "connError", "timeout"}

\* the attempt ends inside the loop body: a response of any status, or an
\* exception that one of the three except clauses catches
Caught(outcome) == outcome \in {"status500", "connError", "timeout", "otherError"}

\* variant: one more iteration of the retry loop
RetryLoopOneMore(i) == i + 1 <= max_retries

\* for attempt in range(max_retries): another iteration follows iteration i
RetryLoopContinues(i) == i + 1 < max_retries

\* variant: the sleep follows every failed attempt, the last one as well
RetrySleepAlways(i) == retry_delay * (i + 1)

\* await asyncio.sleep(retry_delay * (attempt + 1)), not after the last attempt
RetrySleep(i) == IF i < max_retries - 1 THEN retry_delay * (i + 1) ELSE 0

\* variant: a success leaves the counter as it is
KeptAfterSuccess(n) == n

\* consecutive_failures = 0  # Reset on success
AfterSuccess(n) == 0

\* variant: the threshold is passed only above it
AboveFailureThreshold(n) == n > max_consecutive_failures

\* if consecutive_failures >= max_consecutive_failures
TooManyFailures(n) == n >= max_consecutive_failures

\* variant: the monitoring loop is started at once, without the health wait
\* and the registration
StartMonitoringAtOnce ==
    /\ phase = "Starting"
    /\ phase' = "Monitoring"
    /\ UNCHANGED <<total_waited, wait_interval, last_poll, last_sleep, attempt,
                   consecutive_failures, sent, returned, failed_run>>
    /\ UNCHANGED loopVars
    /\ UNCHANGED last_outcome
    /\ UNCHANGED recovered
    /\ UNCHANGED collectorVars
    /\ UNCHANGED detectorVars

StartAgent ==
    /\ phase = "Starting"
    /\ phase' = "WaitingForCollector"
    /\ total_waited' = 0
    /\ wait_interval' = InitialWaitInterval
    /\ UNCHANGED <<last_poll, last_sleep, attempt, consecutive_failures, sent,
                   returned, failed_run>>
    /\ UNCHANGED loopVars
    /\ UNCHANGED last_outcome
    /\ UNCHANGED recovered
    /\ UNCHANGED collectorVars
    /\ UNCHANGED detectorVars

\* one iteration of the health wait loop
HealthPoll(outcome) ==
    /\ phase = "WaitingForCollector"
    /\ HealthWaitContinues(total_waited)
    /\ last_poll' = outcome
    /\ sent' = "health"
    /\ IF outcome = "ok200"
       THEN /\ phase' = "Registering"
            /\ last_sleep' = 0
            /\ UNCHANGED <<total_waited, wait_interval>>
       ELSE IF HealthPollRaises(outcome)
       THEN /\ last_sleep' = wait_interval
            /\ total_waited' = total_waited + wait_interval
            /\ wait_interval' = NextWaitInterval(wait_interval)
            /\ UNCHANGED phase
       ELSE /\ last_sleep' = 0
            /\ UNCHANGED <<phase, total_waited, wait_interval>>
    /\ UNCHANGED <<attempt, consecutive_failures, returned, failed_run>>
    /\ UNCHANGED loopVars
    /\ UNCHANGED last_outcome
    /\ UNCHANGED recovered
    /\ UNCHANGED collectorVars
    /\ UNCHANGED detectorVars

\* the wait budget is used up: StartupTimeout, the process exits non-zero
StartupTimeout ==
    /\ phase = "WaitingForCollector"
    /\ ~HealthWaitContinues(total_waited)
    /\ phase' = "Failed"
    /\ UNCHANGED <<total_waited, wait_interval, last_poll, last_sleep, attempt,
                   consecutive_failures, sent, returned, failed_run>>
    /\ UNCHANGED loopVars
    /\ UNCHANGED last_outcome
    /\ UNCHANGED recovered
    /\ UNCHANGED collectorVars
    /\ UNCHANGED detectorVars

\* one iteration of the retry loop of a call; done is what the caller does
\* with the result
RetryStep(call, outcome, onSuccess, onError) ==
    /\ sent' = call
    /\ last_outcome' = outcome
    /\ IF outcome = "ok200"
       THEN /\ returned' = [call |-> call, ok |-> TRUE, attempts |-> attempt + 1]
            /\ attempt' = 0
            /\ last_sleep' = 0
            /\ onSuccess
       ELSE IF ~Caught(outcome)
       THEN /\ phase' = "Failed"
            /\ attempt' = 0
            /\ last_sleep' = 0
            /\ UNCHANGED <<returned, consecutive_failures>>
       ELSE IF RetryLoopContinues(attempt)
       THEN /\ attempt' = attempt + 1
            /\ last_sleep' = RetrySleep(attempt)
            /\ UNCHANGED <<returned, phase, consecutive_failures>>
       ELSE /\ returned' = [call |-> call, ok |-> FALSE, attempts |-> attempt + 1]
            /\ attempt' = 0
            /\ last_sleep' = RetrySleep(attempt)
            /\ onError

\* register_with_nerve_center at startup
RegisterAttempt(outcome) ==
    /\ phase = "Registering"
    /\ RetryStep("register", outcome,
                 phase' = "Monitoring" /\ UNCHANGED consecutive_failures,
                 UNCHANGED <<phase, consecutive_failures>>)
    /\ failed_run' = 0
    /\ UNCHANGED <<total_waited, wait_interval, last_poll>>
    /\ UNCHANGED loopVars
    /\ UNCHANGED recovered
    /\ UNCHANGED collectorVars
    /\ UNCHANGED detectorVars

\* the loop runs in these two states
LoopPhases == {"Monitoring", "ReRegistering"}

\* await asyncio.sleep(2): the monitoring interval
MonitorInterval == 2

\* the rules in the order check_for_anomalies runs them
RuleOrder == <<"SustainedHighCPU", "CPUSpike">>

\* what check_for_anomalies can return: the rules that fired, in rule order
DetectResults ==
    { <<>>, <<RuleOrder[1]>>, <<RuleOrder[2]>>, <<RuleOrder[1], RuleOrder[2]>> }

\* variant: the anomalies are taken from the end of the list
LastToReport(found) == found[Len(found)]

\* for anomaly in anomalies: the anomaly the loop is at
NextToReport(found) == Head(found)

\* the call returns with this attempt: success, or the last attempt failed
CallReturns(outcome) == outcome = "ok200" \/ ~RetryLoopContinues(attempt)

\* STEP 1 and STEP 2 of the loop body: collect_metrics, check_for_anomalies;
\* found is what the detector returned
SenseDetect(found) ==
    /\ phase \in LoopPhases
    /\ step = "sense"
    /\ ~stop
    /\ anomalies' = found
    /\ detected' = found
    /\ reported' = <<>>
    /\ step' = IF phase = "Monitoring" /\ found = <<>> THEN "sleep" ELSE "send"
    /\ sent' = "none"
    /\ UNCHANGED <<phase, total_waited, wait_interval, last_poll, last_sleep, attempt,
                   consecutive_failures, returned, failed_run, inflight, stop,
                   stop_during>>
    /\ UNCHANGED last_outcome
    /\ UNCHANGED failed_total
    /\ UNCHANGED recovered
    /\ UNCHANGED collectorVars
    /\ UNCHANGED detectorVars

\* STEP 3: one attempt of report_threat for the anomaly the loop is at, and
\* monitor_system's consecutive-failure counter when the call returns
ReportAttempt(outcome) ==
    /\ phase = "Monitoring"
    /\ step = "send"
    /\ anomalies # <<>>
    /\ attempt = 0 => ~stop
    /\ RetryStep("report", outcome,
                 consecutive_failures' = AfterSuccess(consecutive_failures) /\ UNCHANGED phase,
                 /\ consecutive_failures' = consecutive_failures + 1
                 /\ phase' = IF TooManyFailures(consecutive_failures + 1)
                             THEN "ReRegistering" ELSE "Monitoring")
    /\ failed_run' = IF outcome = "ok200" THEN 0
                     ELSE IF RetryLoopContinues(attempt) THEN failed_run
                     ELSE failed_run + 1
    /\ failed_total' = IF outcome = "ok200" \/ RetryLoopContinues(attempt)
                          \/ failed_total >= max_consecutive_failures
                       THEN failed_total
                       ELSE failed_total + 1
    /\ IF CallReturns(outcome)
       THEN /\ inflight' = "none"
            /\ reported' = Append(reported, NextToReport(anomalies))
            /\ step' = "evidence"
       ELSE /\ inflight' = NextToReport(anomalies)
            /\ UNCHANGED <<reported, step>>
    /\ UNCHANGED <<total_waited, wait_interval, last_poll, anomalies, stop, detected,
                   stop_during>>
    /\ UNCHANGED recovered
    /\ UNCHANGED collectorVars
    /\ UNCHANGED detectorVars

\* create_evidence_pack for the anomaly just reported; the loop moves on to
\* the next anomaly, or to the sleep when none is left or the agent has to
\* register again first
EvidencePack ==
    /\ phase \in LoopPhases
    /\ step = "evidence"
    /\ ~stop
    /\ sent' = "evidence"
    /\ anomalies' = Tail(anomalies)
    /\ step' = IF phase = "Monitoring" /\ Tail(anomalies) # <<>> THEN "send" ELSE "sleep"
    /\ UNCHANGED <<phase, total_waited, wait_interval, last_poll, last_sleep, attempt,
                   consecutive_failures, returned, failed_run, inflight, stop,
                   detected, reported, stop_during>>
    /\ UNCHANGED last_outcome
    /\ UNCHANGED failed_total
    /\ UNCHANGED recovered
    /\ UNCHANGED collectorVars
    /\ UNCHANGED detectorVars

\* await asyncio.sleep(2) at the end of the loop body
Sleep ==
    /\ phase \in LoopPhases
    /\ step = "sleep"
    /\ ~stop
    /\ step' = "sense"
    /\ last_sleep' = MonitorInterval
    /\ sent' = "none"
    /\ UNCHANGED <<phase, total_waited, wait_interval, last_poll, attempt,
                   consecutive_failures, returned, failed_run, anomalies, inflight,
                   stop, detected, reported, stop_during>>
    /\ UNCHANGED last_outcome
    /\ UNCHANGED failed_total
    /\ UNCHANGED recovered
    /\ UNCHANGED collectorVars
    /\ UNCHANGED detectorVars

\* STEP 1 and STEP 2 with the detector behind them: the sample goes into the
\* ring, the rules run (those in throws raise an exception), the kinds raised
\* get their timestamp and are what the loop reports in this tick
Tick(sample, throws, limit) ==
    /\ phase \in LoopPhases
    /\ step = "sense"
    /\ ~stop
    /\ cycles + missed < limit
    /\ ring' = Push(ring, sample)
    /\ raised' = RunRules(ring', now, last_raised, throws)
    /\ last_raised' = [kind \in DOMAIN last_raised |->
                          IF kind \in Range(raised') THEN now ELSE last_raised[kind]]
    /\ now' = now + MonitorInterval
    /\ cycles' = cycles + 1
    /\ taken' = Append(taken, sample)
    /\ cooled' = { kind \in Range(DetectorKinds) : InCooldown(kind, now, last_raised) }
    /\ raise_log' = raise_log \o [i \in 1..Len(raised') |-> [kind |-> raised'[i], at |-> now]]
    /\ threw' = throws
    /\ skipped' = FALSE
    /\ anomalies' = raised'
    /\ detected' = raised'
    /\ reported' = <<>>
    /\ step' = IF phase = "Monitoring" /\ raised' = <<>> THEN "sleep" ELSE "send"
    /\ sent' = "none"
    /\ UNCHANGED <<phase, total_waited, wait_interval, last_poll, last_sleep, attempt,
                   consecutive_failures, returned, failed_run, inflight, stop,
                   stop_during, missed>>
    /\ UNCHANGED last_outcome
    /\ UNCHANGED failed_total
    /\ UNCHANGED recovered
    /\ UNCHANGED collectorVars

\* variant: a failed sampling call ends the agent
SampleFailsFatal(limit) ==
    /\ phase \in LoopPhases
    /\ step = "sense"
    /\ ~stop
    /\ cycles + missed < limit
    /\ phase' = "Failed"
    /\ skipped' = TRUE
    /\ missed' = missed + 1
    /\ sent' = "none"
    /\ UNCHANGED <<total_waited, wait_interval, last_poll, last_sleep, attempt,
                   consecutive_failures, returned, failed_run>>
    /\ UNCHANGED loopVars
    /\ UNCHANGED <<ring, now, last_raised, raised, cycles, taken, cooled, raise_log, threw>>
    /\ UNCHANGED last_outcome
    /\ UNCHANGED recovered
    /\ UNCHANGED collectorVars

\* STEP 1 fails or stalls: the tick is skipped: nothing goes into the ring,
\* no rule runs, nothing is reported, and the loop goes to its sleep
SampleFails(limit) ==
    /\ phase \in LoopPhases
    /\ step = "sense"
    /\ ~stop
    /\ cycles + missed < limit
    /\ skipped' = TRUE
    /\ missed' = missed + 1
    /\ now' = now + MonitorInterval
    /\ anomalies' = <<>>
    /\ detected' = <<>>
    /\ reported' = <<>>
    /\ step' = "sleep"
    /\ sent' = "none"
    /\ UNCHANGED <<phase, total_waited, wait_interval, last_poll, last_sleep, attempt,
                   consecutive_failures, returned, failed_run, inflight, stop,
                   stop_during>>
    /\ UNCHANGED <<ring, last_raised, raised, cycles, taken, cooled, raise_log, threw>>
    /\ UNCHANGED last_outcome
    /\ UNCHANGED failed_total
    /\ UNCHANGED recovered
    /\ UNCHANGED collectorVars

\* variant: a failed re-registration is retried at once, the loop body does
\* not go on
ReRegisterInPlace(outcome) ==
    /\ phase = "ReRegistering"
    /\ step = "send"
    /\ attempt = 0 => ~stop
    /\ RetryStep("register", outcome,
                 phase' = "Monitoring" /\ consecutive_failures' = 0,
                 UNCHANGED <<phase, consecutive_failures>>)
    /\ failed_run' = 0
    /\ step' = IF outcome = "ok200" /\ anomalies = <<>> THEN "sleep" ELSE "send"
    /\ UNCHANGED <<total_waited, wait_interval, last_poll, anomalies, inflight, stop,
                   detected, reported, stop_during>>
    /\ failed_total' = IF outcome = "ok200" THEN 0 ELSE failed_total
    /\ recovered' = (recovered \/ outcome = "ok200")
    /\ UNCHANGED collectorVars
    /\ UNCHANGED detectorVars

\* variant: a successful re-registration leaves the counter where it is
ReRegisterKeepsCounter(outcome) ==
    /\ phase = "ReRegistering"
    /\ step = "send"
    /\ attempt = 0 => ~stop
    /\ RetryStep("register", outcome,
                 phase' = "Monitoring" /\ UNCHANGED consecutive_failures,
                 UNCHANGED <<phase, consecutive_failures>>)
    /\ failed_run' = 0
    /\ step' = IF outcome = "ok200" THEN (IF anomalies = <<>> THEN "sleep" ELSE "send")
               ELSE IF CallReturns(outcome) THEN "sleep"
               ELSE "send"
    /\ UNCHANGED <<total_waited, wait_interval, last_poll, anomalies, inflight, stop,
                   detected, reported, stop_during>>
    /\ failed_total' = IF outcome = "ok200" THEN 0 ELSE failed_total
    /\ recovered' = (recovered \/ outcome = "ok200")
    /\ UNCHANGED collectorVars
    /\ UNCHANGED detectorVars

\* the re-registration after too many failures: one attempt of registerAgent
\* in the loop body, after the sample and the detection of the tick; a
\* success resumes the reporting, a failure leaves the rest to the next tick
ReRegisterAttempt(outcome) ==
    /\ phase = "ReRegistering"
    /\ step = "send"
    /\ attempt = 0 => ~stop
    /\ RetryStep("register", outcome,
                 phase' = "Monitoring" /\ consecutive_failures' = 0,
                 UNCHANGED <<phase, consecutive_failures>>)
    /\ failed_run' = 0
    /\ step' = IF outcome = "ok200" THEN (IF anomalies = <<>> THEN "sleep" ELSE "send")
               ELSE IF CallReturns(outcome) THEN "sleep"
               ELSE "send"
    /\ UNCHANGED <<total_waited, wait_interval, last_poll, anomalies, inflight, stop,
                   detected, reported, stop_during>>
    /\ failed_total' = IF outcome = "ok200" THEN 0 ELSE failed_total
    /\ recovered' = (recovered \/ outcome = "ok200")
    /\ UNCHANGED collectorVars
    /\ UNCHANGED detectorVars

\* a stop signal arrives while the loop runs
StopSignal ==
    /\ phase \in LoopPhases
    /\ ~stop
    /\ stop' = TRUE
    /\ stop_during' = <<inflight, attempt>>
    /\ sent' = "none"
    /\ UNCHANGED <<phase, total_waited, wait_interval, last_poll, last_sleep, attempt,
                   consecutive_failures, returned, failed_run, step, anomalies,
                   inflight, detected, reported>>
    /\ UNCHANGED last_outcome
    /\ UNCHANGED failed_total
    /\ UNCHANGED recovered
    /\ UNCHANGED collectorVars
    /\ UNCHANGED detectorVars

\* variant: the loop ends as soon as the signal is there
ExitAtOnce ==
    /\ phase \in LoopPhases
    /\ stop
    /\ phase' = "Stopped"
    /\ sent' = "none"
    /\ UNCHANGED <<total_waited, wait_interval, last_poll, last_sleep, attempt,
                   consecutive_failures, returned, failed_run>>
    /\ UNCHANGED loopVars
    /\ UNCHANGED last_outcome
    /\ UNCHANGED recovered
    /\ UNCHANGED collectorVars
    /\ UNCHANGED detectorVars

\* the loop ends on the signal once no call is in flight
ExitLoop ==
    /\ phase \in LoopPhases
    /\ stop
    /\ attempt = 0
    /\ phase' = "Stopped"
    /\ sent' = "none"
    /\ UNCHANGED <<total_waited, wait_interval, last_poll, last_sleep, attempt,
                   consecutive_failures, returned, failed_run>>
    /\ UNCHANGED loopVars
    /\ UNCHANGED last_outcome
    /\ UNCHANGED recovered
    /\ UNCHANGED collectorVars
    /\ UNCHANGED detectorVars

AgentNext ==
    \/ StartAgent
    \/ \E outcome \in HealthOutcomes : HealthPoll(outcome)
    \/ StartupTimeout
    \/ \E outcome \in SendOutcomes : RegisterAttempt(outcome)
    \/ \E found \in DetectResults : SenseDetect(found)
    \/ \E outcome \in SendOutcomes : ReportAttempt(outcome)
    \/ EvidencePack
    \/ Sleep
    \/ \E outcome \in SendOutcomes : ReRegisterAttempt(outcome)
    \/ StopSignal
    \/ ExitLoop

AgentSpec == Init /\ [][AgentNext]_vars

\* the agent's loop keeps running: asyncio schedules the coroutine again after
\* every await
FairAgentSpec == Init /\ [][AgentNext]_vars /\ WF_vars(AgentNext)

\* LoopSpec: the loop with the detector behind it, on a host whose CPU and
\* disk are high; the collector is healthy at the first poll, a send succeeds
\* or fails to connect, a rule may throw and a sampling call may fail
LoopOutcomes == {"ok200", "connError"}

LoopThrows == { {} } \cup { {kind} : kind \in Range(DetectorKinds) }

LoopSamples == [cpu : {95}, disk : {90}, net : {10}]

LoopNext ==
    \/ StartAgent
    \/ HealthPoll("ok200")
    \/ \E outcome \in LoopOutcomes : RegisterAttempt(outcome)
    \/ \E sample \in LoopSamples : \E throws \in LoopThrows :
          Tick(sample, throws, MaxLoopTicks)
    \/ SampleFails(MaxLoopTicks)
    \/ \E outcome \in LoopOutcomes : ReportAttempt(outcome)
    \/ EvidencePack
    \/ Sleep
    \/ StopSignal
    \/ ExitLoop

LoopSpec == Init /\ [][LoopNext]_vars

-----------------------------------------------------------------------------
(* Specifications of the detector *)

\* SustainedSpec: CPU samples at the threshold and just above it, the cycles
\* an hour apart, so that no kind is in cooldown when the rules run
SustainedSamples == [cpu : {80, 81}, disk : {50}, net : {10}]

SustainedNext == \E sample \in SustainedSamples : Cycle(sample, Cooldown, MaxCycles)

SustainedSpec == Init /\ [][SustainedNext]_vars

\* SpikeSpec: CPU samples around the floor and around twice the baseline
SpikeSamples == [cpu : {25, 30, 50, 60}, disk : {50}, net : {10}]

SpikeNext == \E sample \in SpikeSamples : Cycle(sample, Cooldown, MaxSamples)

SpikeSpec == Init /\ [][SpikeNext]_vars

\* CooldownSpec: a host whose CPU and disk are high on every cycle; the next
\* cycle comes after the monitoring interval or after a pause of just under
\* an hour
HotSamples == [cpu : {95}, disk : {90}, net : {10}]

LongPause == Cooldown - MonitorInterval

CooldownNext ==
    \E sample \in HotSamples : \E d \in {MonitorInterval, LongPause} :
        Cycle(sample, d, MaxTicks)

CooldownSpec == Init /\ [][CooldownNext]_vars

\* NetworkSpec: network throughput, in MB/s, around the floor and around five
\* times the baseline; CPU and disk are low
NetworkSamples == [cpu : {10}, disk : {50}, net : {5, 10, 50, 60}]

NetworkNext == \E sample \in NetworkSamples : Cycle(sample, Cooldown, MaxSamples)

NetworkSpec == Init /\ [][NetworkNext]_vars

-----------------------------------------------------------------------------
(* Properties of the aggregation *)

\* the bucket of a report: agent, kind and the timestamp truncated to the minute
BucketKey(e) ==
    <<e.agentId, e.type, e.timestamp.year, e.timestamp.month, e.timestamp.day,
      e.timestamp.hour, e.timestamp.minute>>

SharesOneBucket(events) ==
    \A i, j \in 1..Len(events) : BucketKey(events[i]) = BucketKey(events[j])

\* r is among events, of the highest severity rank, and the latest of that rank
IsMaxReport(r, events) ==
    /\ r \in Range(events)
    /\ \A e \in Range(events) :
        /\ severityOrder(e.severity) <= severityOrder(r.severity)
        /\ severityOrder(e.severity) = severityOrder(r.severity)
              => ~DateGreater(e.timestamp, r.timestamp)

\* the last GET aggregated at least one row and all its rows share one bucket
AggregatedOneBucket ==
    /\ response.source = "db"
    /\ Len(dbEvents) >= 1
    /\ SharesOneBucket(dbEvents)

C3_MergedOnlyWithinBucket ==
    response.source = "db" =>
        Len(response.data) >= Cardinality({ BucketKey(e) : e \in Range(dbEvents) })

\* C8: firstSeen is the earliest timestamp of the reports merged (the entry has
\* no lastSeen; the only other time it carries is the representative's)
C8_FirstSeenIsEarliest ==
    AggregatedOneBucket =>
        \A e \in Range(dbEvents) : ~DateGreater(eventMap[1].firstSeen, e.timestamp)

NoTies(events) ==
    \A i, j \in 1..Len(events) :
        events[i] # events[j] =>
            ~(/\ events[i].severity = events[j].severity
              /\ events[i].timestamp = events[j].timestamp)

\* C9: the aggregated event of the stored reports is the one every other
\* arrival order of the same reports gives: same count, representative and
\* firstSeen
C9_OrderIndependent ==
    (AggregatedOneBucket /\ Len(dbEvents) = Len(db) /\ NoTies(db)) =>
        \A other \in Orders(db) : \A rows \in FindMany(other) :
            BuildEventMap(<<>>, rows) = eventMap

\* three reports, the first delivered again at the end, arrived in an order
\* that is not the order they are read in
C9_Witness ==
    /\ AggregatedOneBucket
    /\ Len(db) = 3
    /\ Len(dbEvents) = 3
    /\ db[1] = db[3]
    /\ db[2] # db[1]
    /\ ~IsSortedDesc(db)
    /\ db # dbEvents

\* C10: no accepted request is lost while handlers overlap, and once all k
\* overlapping requests of one bucket have written, a GET finds one aggregated
\* event of count k whose representative is the maximum of the k reports
C10_ConcurrentIngest ==
    /\ BagCardinality(pending) + Len(db) = Len(received)
    /\ \A e \in Range(received) :
        CopiesIn(e, pending) + Cardinality({ i \in 1..Len(db) : db[i] = e })
            = Cardinality({ i \in 1..Len(received) : received[i] = e })
    /\ (/\ pending = EmptyBag
        /\ AggregatedOneBucket
        /\ Len(dbEvents) = Len(received))
        => /\ Len(eventMap) = 1
           /\ eventMap[1].count = Len(received)
           /\ IsMaxReport(eventMap[1].representative, received)

\* three requests were in flight together: they wrote in another order than
\* they arrived in, and the GET after them counts 3
C10_Witness ==
    /\ pending = EmptyBag
    /\ Len(received) = 3
    /\ db = <<received[3], received[2], received[1]>>
    /\ received[1] # received[3]
    /\ Len(dbEvents) = 3
    /\ eventMap[1].count = 3

\* the window of a report or of an aggregated event: its minute of the timeline
WindowOf(e) ==
    <<e.timestamp.year, e.timestamp.month, e.timestamp.day, e.timestamp.hour,
      e.timestamp.minute>>

\* the window of agg is over: a report of the same agent and kind in a later
\* window is among rows
WindowElapsed(agg, rows) ==
    \E e \in Range(rows) :
        /\ e.agentId = agg.agentId
        /\ e.type = agg.type
        /\ LexGreater(WindowOf(e), WindowOf(agg), 1)

\* agg has been flushed: the last GET forwarded it after its window was over
Flushed(agg) ==
    /\ response.source = "db"
    /\ agg \in Range(response.data)
    /\ WindowElapsed(agg, dbEvents)

\* the one report stored since the last GET falls into the window of agg
LateReportFor(agg) ==
    /\ Len(db) = Len(dbEvents) + 1
    /\ BucketKey(db[Len(db)]) = BucketKey(agg)

\* C11: a flushed bucket is immutable: the next GET forwards it with the same
\* count and representative, and a report of its agent and kind stored after
\* the flush comes as a new aggregated event of count 1
C11_FlushedImmutable ==
    [][\A agg \in Range(response.data) :
          Flushed(agg) =>
              /\ agg \in Range(response'.data)
              /\ LateReportFor(agg) =>
                    \E fresh \in Range(response'.data) :
                        /\ fresh.count = 1
                        /\ fresh.timestamp = db[Len(db)].timestamp
                        /\ fresh.severity = db[Len(db)].severity]_vars

\* the pairs of severities the last aggregation compared: the severity of a
\* row merged into an entry and the severity of the entry's representative
ComparedPairs ==
    { <<dbEvents[n].severity,
        LET map == BuildEventMap(<<>>, SubSeq(dbEvents, 1, n - 1))
        IN  map[KeyIndex(map, fullKey(dbEvents[n]))].representative.severity>> :
        n \in { k \in 2..Len(dbEvents) :
                  KeyIndex(BuildEventMap(<<>>, SubSeq(dbEvents, 1, k - 1)),
                           fullKey(dbEvents[k])) # 0 } }

ComparedSeverities == { pair[1] : pair \in ComparedPairs } \cup { pair[2] : pair \in ComparedPairs }

\* C12: the ranks are critical=4 > high=3 > medium=2 > low=1, and on the
\* severities that reach the comparison of the aggregation the comparison is
\* defined (both have a rank), two distinct severities are never equal in
\* rank, and the relation is transitive
C12_SeverityTotalOrder ==
    /\ severityOrder("critical") = 4
    /\ severityOrder("high") = 3
    /\ severityOrder("medium") = 2
    /\ severityOrder("low") = 1
    /\ response.source = "db" =>
        /\ \A pair \in ComparedPairs :
            /\ pair[1] \in Severities
            /\ pair[2] \in Severities
            /\ pair[1] # pair[2] =>
                  \/ SeverityGreater(pair[1], pair[2])
                  \/ SeverityGreater(pair[2], pair[1])
        /\ \A a, b, c \in ComparedSeverities :
            (SeverityGreater(a, b) /\ SeverityGreater(b, c)) => SeverityGreater(a, c)

\* the rows of the last GET that went into the group of an entry, in the
\* order they were passed
GroupOf(entry) ==
    LET InGroup(e) == fullKey(e) = entry.key IN SelectSeq(dbEvents, InGroup)

\* C29: GET passes the rows to the aggregation newest first, and the
\* representative of every group is then of the highest severity of the
\* group's rows and the most recent row of that severity; the aggregated
\* event carries its severity and timestamp
C29_RepresentativeOfSortedInput ==
    response.source = "db" =>
        /\ IsSortedDesc(dbEvents)
        /\ Len(response.data) = Len(eventMap)
        /\ \A k \in 1..Len(eventMap) :
            /\ IsMaxReport(eventMap[k].representative, GroupOf(eventMap[k]))
            /\ \E agg \in Range(response.data) :
                  /\ agg.type = eventMap[k].representative.type
                  /\ agg.severity = eventMap[k].representative.severity
                  /\ agg.timestamp = eventMap[k].representative.timestamp
                  /\ agg.count = Len(GroupOf(eventMap[k]))

\* the rows were stored oldest first: critical at 10:00:05, high at 10:00:50
\* and low at 10:01:05 in the next minute; the group of 10:00 is represented
\* by the critical report, the older of its two
C29_Witness ==
    /\ response.source = "db"
    /\ Len(dbEvents) = 3
    /\ db = << [type |-> "NetworkAnomaly", agentId |-> "a1", severity |-> "critical",
                timestamp |-> MkDate(2024, 11, 17, 10, 0, 5)],
               [type |-> "NetworkAnomaly", agentId |-> "a1", severity |-> "high",
                timestamp |-> MkDate(2024, 11, 17, 10, 0, 50)],
               [type |-> "NetworkAnomaly", agentId |-> "a1", severity |-> "low",
                timestamp |-> MkDate(2024, 11, 17, 10, 1, 5)] >>
    /\ Len(eventMap) = 2
    /\ eventMap[2].count = 2
    /\ eventMap[2].representative.severity = "critical"
    /\ eventMap[2].representative.timestamp = MkDate(2024, 11, 17, 10, 0, 5)

\* C30: the in-memory store holds at most 100 events, and they are the
\* min(n, 100) events added last of the n added so far, whatever reads came
\* in between: an add to a full store evicts the event added first
C30_StoreKeepsLatest ==
    LET n == Len(received)
        kept == IF n < 100 THEN n ELSE 100
    IN  /\ Len(developmentEvents) <= 100
        /\ Len(developmentEvents) = kept
        /\ Range(developmentEvents) = { newEvent(received[i]) : i \in (n - kept + 1)..n }

\* C13: a POST of a report that lacks id, type or name is answered with a
\* 4xx status and leaves the event table and the in-memory store as they
\* were; a well-formed report, also after a rejected one, is answered 200 and
\* stored
C13_MalformedRejected ==
    [][received' # received =>
          IF MissingRequired(received'[Len(received')])
          THEN /\ reply'.status \in 400..499
               /\ db' = db
               /\ developmentEvents' = developmentEvents
          ELSE /\ reply'.status = 200
               /\ \/ Len(db') = Len(db) + 1
                  \/ Len(developmentEvents') = Len(developmentEvents) + 1]_vars

\* C27: once an agent is in the table, a later registration with its id
\* leaves its hostname, address and OS description as they are; only cpu,
\* memory and lastSeen may change
C27_IdentityStable ==
    [][\A i \in 1..Len(agents) :
          /\ i <= Len(agents')
          /\ agents'[i].id = agents[i].id
          /\ agents'[i].hostname = agents[i].hostname
          /\ agents'[i].ipAddress = agents[i].ipAddress
          /\ agents'[i].osType = agents[i].osType]_vars

-----------------------------------------------------------------------------
(* Properties of the agent *)

\* C4: a call makes at most 3 send attempts, and a call that returns an error
\* has made exactly 3: there is no fourth attempt and no endless retry
C4_RetryBudget ==
    /\ attempt \in 0..2
    /\ returned.attempts <= 3
    /\ ~returned.ok => returned.attempts = 3

\* after five failed reports the registration failed as well, on its 3rd attempt
C4_Witness ==
    /\ returned = [call |-> "register", ok |-> FALSE, attempts |-> 3]
    /\ phase = "ReRegistering"
    /\ consecutive_failures = 5

\* C5: after 5 report calls have failed in a row, the next request is not a
\* report: registerAgent is invoked first
C5_ReRegisterBeforeReport ==
    [][failed_run >= 5 => sent' # "report"]_vars

\* registerAgent has been invoked right after the 5th failure
C5_Witness ==
    /\ phase = "ReRegistering"
    /\ consecutive_failures = 5
    /\ failed_run = 0
    /\ sent = "register"
    /\ attempt = 1

\* the steps of the runtime from one state to another
PhaseOrder ==
    { <<"Starting", "WaitingForCollector">>, <<"WaitingForCollector", "Registering">>,
      <<"WaitingForCollector", "Failed">>, <<"Registering", "Monitoring">>,
      <<"Monitoring", "ReRegistering">>, <<"ReRegistering", "Monitoring">>,
      <<"Monitoring", "Stopped">>, <<"ReRegistering", "Stopped">> }

\* C14: the runtime goes Starting -> WaitingForCollector -> Registering ->
\* Monitoring; a step enters Monitoring only from Registering or ReRegistering
\* and only as a registerAgent call returns success; a report is sent only by
\* a step taken in Monitoring
C14_RegistrationBeforeReporting ==
    [][/\ phase' # phase => <<phase, phase'>> \in PhaseOrder
       /\ (phase' = "Monitoring" /\ phase # "Monitoring") =>
            /\ phase \in {"Registering", "ReRegistering"}
            /\ sent' = "register"
            /\ returned' = [call |-> "register", ok |-> TRUE, attempts |-> attempt + 1]
       /\ (sent' = "report" /\ <<sent, attempt, returned>> # <<sent', attempt', returned'>>) =>
            phase = "Monitoring"]_vars

\* the agent waited 2 s and 4 s for the collector, registered, and its first
\* report from Monitoring has returned
C14_Witness ==
    /\ phase = "Monitoring"
    /\ last_poll = "ok200"
    /\ total_waited = 6
    /\ sent = "report"
    /\ returned = [call |-> "report", ok |-> TRUE, attempts |-> 1]
    /\ consecutive_failures = 0

\* C15: a registerAgent call that fails in ReRegistering leaves the runtime in
\* ReRegistering; it is tried again on every tick, each time after the sample
\* and the detection of that tick; the runtime leaves ReRegistering only for
\* Monitoring on a successful registration, and the loop only on a stop signal
C15_ReRegistrationNotFatal ==
    [][/\ (phase = "ReRegistering" /\ returned' # returned /\ ~returned'.ok) =>
            phase' = "ReRegistering"
       /\ (phase = "ReRegistering" /\ phase' # "ReRegistering") =>
            \/ phase' = "Monitoring" /\ returned'.call = "register" /\ returned'.ok
            \/ phase' = "Stopped" /\ stop
       /\ (phase \in LoopPhases /\ phase' \notin LoopPhases) => stop
       /\ (phase = "ReRegistering" /\ attempt = 0 /\ sent' = "register") =>
            /\ sent = "none"
            /\ step = "send"
            /\ reported = <<>>
            /\ anomalies = detected]_vars

\* a re-registration has failed after its three attempts, and on the next
\* tick the agent, still unregistered, has sampled and detected a CPUSpike
C15_Witness ==
    /\ phase = "ReRegistering"
    /\ returned = [call |-> "register", ok |-> FALSE, attempts |-> 3]
    /\ step = "send"
    /\ sent = "none"
    /\ last_sleep = MonitorInterval
    /\ detected = <<"CPUSpike">>
    /\ ~stop

\* C16: the loop ends only on a stop signal and only when no call is in
\* flight; after the signal no new cycle and no new report call is started,
\* a report call in flight goes on to its return, and the agent does exit
C16_Cancellation ==
    /\ [][/\ (phase' = "Stopped" /\ phase # "Stopped") =>
               stop /\ inflight = "none" /\ attempt = 0
          /\ stop =>
               /\ detected' = detected
               /\ step' = "sense" => step = "sense"
               /\ sent' = "report" => inflight # "none"
               /\ sent' \in {"register", "report"} => attempt > 0
               /\ sent' # "evidence"
          /\ (stop /\ inflight # "none") =>
               /\ phase' # "Stopped"
               /\ inflight' = "none" =>
                     \/ returned'.ok
                     \/ returned'.attempts = max_retries]_vars
    /\ (stop ~> phase = "Stopped")

\* the signal arrived after the first attempt of a report had failed; the
\* call made its other two attempts before the agent stopped
C16_Witness ==
    /\ phase = "Stopped"
    /\ stop_during = <<"SustainedHighCPU", 1>>
    /\ returned = [call |-> "report", ok |-> FALSE, attempts |-> 3]
    /\ reported = <<"SustainedHighCPU">>

IsPrefix(s, t) == Len(s) <= Len(t) /\ SubSeq(t, 1, Len(s)) = s

\* C20: the report calls of a cycle are made for the detected anomalies in
\* the order the detector returned them, none skipped; an attempt is made for
\* the anomaly in flight or, when no call is in flight, as the first attempt
\* for the anomaly after the ones whose call has returned
C20_ReportingOrder ==
    [][(sent' = "report" /\ (reported' # reported \/ attempt' # attempt)) =>
          LET target == IF inflight' # "none" THEN inflight'
                        ELSE reported'[Len(reported')]
          IN  /\ Len(reported) < Len(detected)
              /\ target = detected[Len(reported) + 1]
              /\ inflight \in {"none", target}
              /\ inflight = "none" <=> attempt = 0
              /\ IsPrefix(reported', detected')]_vars

\* both anomalies of the cycle have been reported, SustainedHighCPU first;
\* the report of CPUSpike took two attempts
C20_Witness ==
    /\ detected = <<"SustainedHighCPU", "CPUSpike">>
    /\ reported = <<"SustainedHighCPU", "CPUSpike">>
    /\ returned = [call |-> "report", ok |-> TRUE, attempts |-> 2]
    /\ step = "evidence"

\* C24: after the failed attempt k of a call that has an attempt left
\* (k = 1, 2) the client waits retry_delay * k before attempt k + 1; after the
\* third failed attempt it returns the error without a wait
C24_LinearBackoff ==
    [][/\ attempt' = attempt + 1 =>
            /\ sent' \in {"register", "report"}
            /\ attempt' \in {1, 2}
            /\ last_sleep' = retry_delay * attempt'
       /\ (attempt = 2 /\ attempt' = 0 /\ ~returned'.ok) =>
            /\ returned'.attempts = 3
            /\ last_sleep' = 0]_vars

\* the second attempt of a report has failed and the client has waited 4 s
\* before the third
C24_Witness ==
    /\ sent = "report"
    /\ inflight = "CPUSpike"
    /\ attempt = 2
    /\ last_sleep = 4

FailureClasses == {"connError", "timeout", "status500", "otherError"}

\* C25: a send attempt that ends in a connection error, a timeout, a non-200
\* response or another exception counts as one failed attempt: the call goes
\* on to its next attempt after the same wait, or returns the error after
\* the third; the agent does not end and no attempt is skipped
C25_FailureClasses ==
    [][(attempt' # attempt /\ last_outcome' \in FailureClasses) =>
          /\ sent' \in {"register", "report"}
          /\ phase' \notin {"Failed", "Stopped"}
          /\ IF attempt < 2
             THEN /\ attempt' = attempt + 1
                  /\ last_sleep' = 2 * (attempt + 1)
                  /\ returned' = returned
                  /\ consecutive_failures' = consecutive_failures
             ELSE /\ attempt' = 0
                  /\ last_sleep' = 0
                  /\ returned' = [call |-> sent', ok |-> FALSE, attempts |-> 3]]_vars

\* a report call whose third attempt ended in an unexpected exception has
\* returned the error, and the agent is still monitoring
C25_Witness ==
    /\ last_outcome = "otherError"
    /\ returned = [call |-> "report", ok |-> FALSE, attempts |-> 3]
    /\ sent = "report"
    /\ consecutive_failures = 1
    /\ phase = "Monitoring"

\* C28: the counter counts failures in a row: a report call that succeeds
\* sets it to 0, in Monitoring it is the number of report calls that failed
\* since the last success, and the step into ReRegistering is taken only as
\* the fifth report call in a row fails
C28_ConsecutiveOnly ==
    [][/\ (sent' = "report" /\ last_outcome' = "ok200") => consecutive_failures' = 0
       /\ phase' = "Monitoring" => consecutive_failures' = failed_run'
       /\ (phase = "Monitoring" /\ phase' = "ReRegistering") =>
            /\ failed_run = 4
            /\ failed_run' = 5
            /\ ~returned'.ok]_vars

\* five report calls have failed since the agent registered, with a success
\* among them: the agent is still in Monitoring, the counter is at 1
C28_Witness ==
    /\ failed_total = 5
    /\ consecutive_failures = 1
    /\ failed_run = 1
    /\ phase = "Monitoring"
    /\ returned = [call |-> "report", ok |-> FALSE, attempts |-> 3]

UnhealthyPolls == {"status500", "status503", "connError", "timeout"}

\* C6: during the health wait every unhealthy poll, a non-200 status like a
\* connection failure, is followed by a sleep of the current interval, and the
\* time waited follows 2, 4, 8, 10, 10, ...
C6_HealthWait ==
    phase = "WaitingForCollector" =>
        /\ last_poll \in UnhealthyPolls => last_sleep \in {2, 4, 8, 10}
        /\ total_waited \in {0, 2, 6, 14, 24, 34, 44, 54, 64}

\* C7: a collector that never reports healthy makes the agent end in the
\* failed state
C7_StartupTimeout ==
    [](last_poll # "ok200") => <>(phase = "Failed")

-----------------------------------------------------------------------------
(* Properties of the detector *)

\* the last 15 of the samples taken
LastWindow == SubSeq(taken, IF Len(taken) > 15 THEN Len(taken) - 14 ELSE 1, Len(taken))

HighInWindow == Cardinality({ i \in 1..Len(LastWindow) : LastWindow[i].cpu > 80 })

\* C17: with SustainedHighCPU not in cooldown, the detection returns a
\* SustainedHighCPU anomaly when at least 10 of the last 15 samples have a
\* CPU above 80, and none when at most 9 have; a sample at 80 is not above
C17_SustainedBoundary ==
    (cycles > 0 /\ "SustainedHighCPU" \notin cooled) =>
        ("SustainedHighCPU" \in Range(raised) <=> HighInWindow >= 10)

\* 16 samples; the oldest, no longer in the window, was above 80, and of the
\* last 15 exactly 10 are above 80 and 5 are at 80: the anomaly is raised
C17_Witness ==
    /\ Len(taken) = 16
    /\ taken[1].cpu = 81
    /\ HighInWindow = 10
    /\ "SustainedHighCPU" \notin cooled
    /\ "SustainedHighCPU" \in Range(raised)

\* C21: the ring never holds more than 15 samples, and after n samples it
\* holds the most recent min(n, 15) of them in arrival order: a sample
\* appended to a full ring evicts the oldest one and no other
C21_RingHoldsLatest ==
    /\ Len(ring) <= 15
    /\ Len(ring) = (IF Len(taken) < 15 THEN Len(taken) ELSE 15)
    /\ \A i \in 1..Len(ring) : ring[i] = taken[Len(taken) - Len(ring) + i]

\* the 16th sample has evicted the first: the ring holds the samples 2..16,
\* and the sample evicted differs from the oldest one kept
C21_Witness ==
    /\ Len(taken) = 16
    /\ Len(ring) = 15
    /\ taken[1].cpu = 81
    /\ ring[1].cpu = 80
    /\ ring[15] = taken[16]

RECURSIVE TotalCpu(_, _)
TotalCpu(w, n) == IF n = 0 THEN 0 ELSE w[n].cpu + TotalCpu(w, n - 1)

\* C18: two anomalies of one kind are never raised less than an hour apart,
\* and in every cycle each kind whose condition holds and that was not raised
\* within the last hour is raised, whatever other kinds are in cooldown
C18_Cooldown ==
    [][cycles' # cycles =>
          /\ \A i, j \in 1..Len(raise_log') :
                (i < j /\ raise_log'[i].kind = raise_log'[j].kind) =>
                    raise_log'[j].at - raise_log'[i].at >= 3600
          /\ \A kind \in Range(DetectorKinds) :
                (/\ Condition(kind, ring')
                 /\ \A i \in 1..Len(raise_log) :
                       raise_log[i].kind = kind => now - raise_log[i].at >= 3600)
                    => kind \in Range(raised')]_vars

\* HighDiskUsage raised at 0, SustainedHighCPU at 18 while HighDiskUsage was
\* in cooldown; at 3616 HighDiskUsage again and SustainedHighCPU, 3598 s after
\* its last raise, not; at 3618 SustainedHighCPU again
C18_Witness ==
    raise_log = << [kind |-> "HighDiskUsage", at |-> 0],
                   [kind |-> "SustainedHighCPU", at |-> 18],
                   [kind |-> "HighDiskUsage", at |-> 3616],
                   [kind |-> "SustainedHighCPU", at |-> 3618] >>

\* C19: with CPUSpike not in cooldown, the detection returns a CPUSpike
\* anomaly exactly when the latest sample's CPU is at least twice the mean of
\* the samples of the window before it and is above the floor
C19_SpikeExact ==
    (cycles > 0 /\ "CPUSpike" \notin cooled) =>
        LET n == Len(LastWindow) - 1
            latest == LastWindow[Len(LastWindow)].cpu
        IN  "CPUSpike" \in Range(raised) <=>
                /\ n >= 1
                /\ latest * n >= 2 * TotalCpu(LastWindow, n)
                /\ latest > SpikeFloor

\* the latest sample, 60, is exactly twice the mean of the two before it
C19_Witness ==
    /\ Len(taken) = 3
    /\ taken[1].cpu = 30
    /\ taken[2].cpu = 30
    /\ taken[3].cpu = 60
    /\ "CPUSpike" \in Range(raised)

RECURSIVE TotalNet(_, _)
TotalNet(w, n) == IF n = 0 THEN 0 ELSE w[n].net + TotalNet(w, n - 1)

\* C26: with NetworkAnomaly not in cooldown, the detection returns a
\* NetworkAnomaly only when the latest throughput is above the floor of
\* 50 MB/s and also above 5 times the mean of the window before it; when one
\* of the two holds alone, none is returned
C26_NetworkConjunction ==
    (cycles > 0 /\ "NetworkAnomaly" \notin cooled) =>
        LET n == Len(LastWindow) - 1
            latest == LastWindow[Len(LastWindow)].net
            high == latest > 50
            spike == n >= 1 /\ latest * n > 5 * TotalNet(LastWindow, n)
        IN  /\ "NetworkAnomaly" \in Range(raised) => (high /\ spike)
            /\ (high /\ ~spike) => "NetworkAnomaly" \notin Range(raised)
            /\ (spike /\ ~high) => "NetworkAnomaly" \notin Range(raised)

\* 5, 50, 60 MB/s: the second sample is ten times the first but not above
\* the floor, the third is above the floor but not five times the mean of
\* the two before it; nothing has been raised
C26_Witness ==
    /\ Len(taken) = 3
    /\ taken[1].net = 5
    /\ taken[2].net = 50
    /\ taken[3].net = 60
    /\ raise_log = <<>>

-----------------------------------------------------------------------------
(* Properties of the loop with the detector behind it *)

\* C22: in a cycle in which a rule throws, that rule yields no anomaly, every
\* other rule yields exactly what the detection without the exception
\* yields, in the same order, and the loop goes on with these anomalies
C22_RuleIsolation ==
    [][cycles' # cycles =>
          LET unfailing == check_for_anomalies(ring', now, last_raised)
              Kept(kind) == kind \notin threw'
          IN  /\ \A kind \in threw' : kind \notin Range(raised')
              /\ raised' = SelectSeq(unfailing, Kept)
              /\ detected' = raised'
              /\ anomalies' = raised'
              /\ phase' = phase
              /\ phase' \in LoopPhases
              /\ step' = (IF raised' = <<>> THEN "sleep" ELSE "send")]_vars

\* in the 10th cycle the sustained rule, whose condition holds, threw; the
\* disk rule of the same cycle raised HighDiskUsage and the loop reported it
C22_Witness ==
    /\ threw = {"SustainedHighCPU"}
    /\ SustainedHighCPU(ring)
    /\ "SustainedHighCPU" \notin cooled
    /\ raised = <<"HighDiskUsage">>
    /\ reported = <<"HighDiskUsage">>
    /\ returned = [call |-> "report", ok |-> TRUE, attempts |-> 1]

\* C23: a tick whose sampling call fails leaves the ring and the detector as
\* they were, detects and reports nothing, and goes on to the sleep and the
\* next tick; the loop is left only on a stop signal
C23_SamplingFailure ==
    [][/\ missed' # missed =>
            /\ ring' = ring
            /\ <<raised', last_raised', cycles', raise_log'>>
                  = <<raised, last_raised, cycles, raise_log>>
            /\ detected' = <<>>
            /\ anomalies' = <<>>
            /\ phase' = phase
            /\ step' = "sleep"
       /\ skipped' => sent' \notin {"report", "evidence"}
       /\ (skipped /\ step = "sleep" /\ step' # step) => step' = "sense"
       /\ (phase \in LoopPhases /\ phase' \notin LoopPhases) => stop]_vars

\* three sampling calls in a row failed; the fourth tick took the first
\* sample and raised HighDiskUsage, six seconds after the loop started
C23_Witness ==
    /\ missed = 3
    /\ ~skipped
    /\ Len(ring) = 1
    /\ raise_log = << [kind |-> "HighDiskUsage", at |-> 6] >>
    /\ phase = "Monitoring"
    /\ step = "send"

-----------------------------------------------------------------------------
(* Visibility of accepted events, and the fallback of POST /api/events *)

\* the events a response counts: an aggregated entry counts its group, an
\* entry of the in-memory store counts itself
RECURSIVE Reflected(_)
Reflected(data) ==
    IF data = <<>> THEN 0
    ELSE (IF "count" \in DOMAIN Head(data) THEN Head(data).count ELSE 1)
         + Reflected(Tail(data))

\* a step of GET /api/events: no POST handler starts or ends
GetStep ==
    /\ received' = received
    /\ pending' = pending
    /\ db' = db
    /\ reply' = reply

\* the events POST /api/events has answered with success
Accepted == Len(db) + Len(developmentEvents)

\* C31: every event that POST /api/events accepted is reflected, as its own
\* entry or inside the count of an aggregated group, in every later GET
\* response while it is among the 100 most recent, whichever store took it
\* and whichever store the GET reads
C31_AcceptedVisible ==
    [][(GetStep /\ Accepted <= TakeLimit) => Reflected(response'.data) = Accepted]_vars

\* the store an event went to: a POST handler ends
PostEnds == pending' # pending /\ received' = received

\* C32: when the database write throws, the event is appended to the
\* in-memory store and the response is success with savedToDb false; when
\* it succeeds the in-memory store is unchanged and savedToDb is true; an
\* accepted event is in exactly one of the two stores
C32_ExactlyOneStore ==
    [][PostEnds =>
          /\ reply'.status = 200
          /\ \E event \in BagToSet(pending) :
                /\ pending' = pending (-) SetToBag({event})
                /\ IF reply'.savedToDb
                   THEN /\ db' = Append(db, EventRow(event))
                        /\ developmentEvents' = developmentEvents
                   ELSE /\ db' = db
                        /\ Len(developmentEvents) < StoreLimit
                        /\ developmentEvents' = Append(developmentEvents, EventRow(event))
          /\ Len(db') + Len(developmentEvents') + BagCardinality(pending')
                = Len(received')]_vars

\* an event went to the in-memory store while another is in the database
C32_Witness ==
    /\ reply.route = "events"
    /\ ~reply.savedToDb
    /\ Len(developmentEvents) > 0
    /\ Len(db) > 0
    /\ pending = EmptyBag

-----------------------------------------------------------------------------
(* The alert events of GET /api/system-health *)

\* C33: of the active 'System Health Alert' events of one component no two
\* were created within 5 minutes of each other, also when the find and the
\* create of concurrent GETs interleave
C33_OneAlertPerWindow ==
    \A i, j \in 1..Len(db) :
        (/\ i < j
         /\ db[i].name = db[j].name
         /\ db[i].status = "active"
         /\ db[j].status = "active")
        => db[j].timestamp - db[i].timestamp > AlertWindow

-----------------------------------------------------------------------------
(* aggregateEventsByMinute as a partition of its input *)

\* C34: aggregateEventsByMinute partitions the rows it is given: every row
\* is counted by exactly one aggregated event, the counts add up to the
\* number of rows, and in every aggregated event count, aggregatedCount and
\* details.originalCount are equal
C34_AggregationPartitions ==
    (response.source = "db" /\ Len(dbEvents) > 0) =>
        /\ response.data = aggregateEventsByMinute(dbEvents)
        /\ Len(response.data) = Len(eventMap)
        /\ \A i \in 1..Len(dbEvents) :
              Cardinality({ k \in 1..Len(eventMap) :
                              eventMap[k].key = fullKey(dbEvents[i]) }) = 1
        /\ \A k \in 1..Len(eventMap) :
              /\ eventMap[k].count = Len(GroupOf(eventMap[k]))
              /\ Aggregated(eventMap[k]) \in Range(response.data)
        /\ Reflected(response.data) = Len(dbEvents)
        /\ \A agg \in Range(response.data) :
              /\ agg.count >= 1
              /\ agg.aggregatedCount = agg.count
              /\ agg.originalCount = agg.count

\* three rows in two groups: one aggregated event counts 2, the other 1
C34_Witness ==
    /\ response.source = "db"
    /\ Len(dbEvents) = 3
    /\ Len(response.data) = 2
    /\ { response.data[1].count, response.data[2].count } = {1, 2}

-----------------------------------------------------------------------------
(* Registration as an upsert *)

\* C35: whatever the order and interleaving of the POST /api/agents
\* handlers, the table holds at most one row per id, and no step of a
\* handler changes the threats of a row
C35_Upsert ==
    /\ [](\A i, j \in 1..Len(agents) : agents[i].id = agents[j].id => i = j)
    /\ [][pending' # pending =>
             \A i \in 1..Len(agents) :
                 /\ i <= Len(agents')
                 /\ agents'[i].id = agents[i].id
                 /\ agents'[i].threats = agents[i].threats]_vars

\* three registrations of a1 have ended, the last one an update at the
\* third write, and the row still counts its two threats
C35_Witness ==
    /\ Len(agents) = 1
    /\ Len(received) = 3
    /\ pending = EmptyBag
    /\ reply = [route |-> "agents", status |-> 200, savedToDb |-> TRUE]
    /\ agents[1].lastSeen = 3
    /\ agents[1].threats = 2

-----------------------------------------------------------------------------
(* The counter after a re-registration *)

-----------------------------------------------------------------------------
(* The acknowledgement of a threat *)

\* C37: when the Acknowledge button of a stored threat has been answered
\* with success by the handler itself, the stored threat is acknowledged,
\* and the status of no other threat has changed
C37_AcknowledgeStored ==
    [][(/\ received' # received
        /\ reply'.route = "acknowledge"
        /\ reply'.status = 200
        /\ ~reply'.forwarded
        /\ StartsWith(reply'.eventId, <<"event", "threat">>)) =>
          /\ Len(developmentThreats') = Len(developmentThreats)
          /\ \A i \in 1..Len(developmentThreats) :
                /\ developmentThreats'[i].id = developmentThreats[i].id
                /\ developmentThreats'[i].status =
                      IF ButtonEventId(developmentThreats[i].id) = reply'.eventId
                      THEN "acknowledged"
                      ELSE developmentThreats[i].status]_vars

====
